---- MODULE Spec2Model ----
(***************************************************************************)
(* Real-time chat backend: the WebSocket gateway (WebSocketService), the   *)
(* Redis-backed presence / participant / session stores (RedisService),    *)
(* and the parts of RoomService and MessageService the gateway calls.      *)
(*                                                                         *)
(* Every async handler is a task whose position (pc) advances one await at *)
(* a time: a step is the effect of the awaited store operation followed by *)
(* the synchronous code that runs until the next await.  Synchronous       *)
(* handlers (typing, rate limiter) are single steps.  Time is in           *)
(* milliseconds.                                                           *)
(***************************************************************************)
EXTENDS Integers, Sequences, FiniteSets, TLC

(* ------------------------------ bounds --------------------------------- *)
MaxTime == 60001
MaxTasks == 2
MaxAttempts == 32
MaxEvents == 3
TypingHorizon == 5000
PresenceHorizon == 30000
MaxPresenceEvents == 2
MaxBurst == 64
MaxLoads == 2

(* ------------------------- program constants --------------------------- *)
PresenceTTL == 30000
TypingTimeout == 3000
RateWindow == 60000
SendLimit == 30
JoinLimit == 10
PresenceLimit == 60
TypingLimit == 20
DefaultLimit == 100
MaxTextLen == 2000
HistoryLimit == 50

(* ------------------------------ universe ------------------------------- *)
Users == {"alice", "bob"}
GhostUser == "nobody"
Sockets == {"s1", "s2", "s3"}
Rooms == {"general", "team"}
None == "none"

\* registered users (users table); GhostUser has a token but no row
usersDb == Users

\* the token each connection presents in socket.handshake.auth.token
TokenKinds == {"valid", "expired", "invalid", "missing"}

\* message content: pad leading/trailing blanks around len other characters
ContentInputs == {[pad |-> 0, len |-> 0], [pad |-> 1, len |-> 0], [pad |-> 1, len |-> 1]}

Len0(c) == c.pad + c.len
NoContent == [pad |-> 0, len |-> 0]

VARIABLES
  now,          \* Date.now(), milliseconds
  memberships,  \* room_memberships rows: set of [user, room, role]
  roomsDb,      \* chat_rooms rows: room -> [type, owner]
  messages,     \* messages rows, in insertion order
  presence,     \* Redis presence:user:{id}: the record and its expiry
  participants, \* Redis room:participants:{room}: set of user ids
  sessions,     \* Redis session:{socketId}: user id, or None
  sockState,    \* per connection: "new", "refused", "connected", "closed"
  sockToken,    \* socket.handshake.auth.token of the connection
  sockUser,     \* socket.userId attached by the auth middleware
  bound,        \* event handlers registered by the connection handler
  socketRooms,  \* socket.io adapter rooms of each socket
  typingUsers,  \* this.typingUsers[room][user]: the pending timer [sock, deadline]
  limits,       \* rate limiter closure state: sock -> action -> window
  tasks,        \* in-flight async handler invocations
  outbox,       \* events delivered to each client, in order
  sent,         \* number of events each client has emitted
  cache         \* Redis cache:messages:{room}:latest: the cached history

vars == <<now, memberships, roomsDb, messages, presence, participants,
          sessions, sockState, sockToken, cache, sockUser, bound, socketRooms,
          typingUsers, limits, tasks, outbox, sent, cache>>

RateActions == {"send_message", "join_room", "update_presence", "start_typing"}

\* absent values, in the shape of the present ones
NoLimit == [count |-> 0, resetTime |-> -1]
NoPresence == [status |-> None, connectionId |-> None, lastActivity |-> 0, expireAt |-> 0]
NoRoomRow == [type |-> None, owner |-> None]
NoTyping == [sock |-> None, deadline |-> 0]
NoToken == [kind |-> None, user |-> None]
\* an array that is not there: null from a GET, undefined from a property read
NoCache == [defined |-> FALSE, items |-> <<>>]

Init ==
  /\ now = 0
  /\ memberships = {}
  /\ roomsDb = [r \in Rooms |-> IF r = "general"
                                THEN [type |-> "public", owner |-> None]
                                ELSE NoRoomRow]
  /\ messages = <<>>
  /\ presence = [u \in Users \cup {GhostUser} |-> NoPresence]
  /\ participants = [r \in Rooms |-> {}]
  /\ sessions = [s \in Sockets |-> None]
  /\ sockState = [s \in Sockets |-> "new"]
  /\ sockToken = [s \in Sockets |-> NoToken]
  /\ sockUser = [s \in Sockets |-> None]
  /\ bound = [s \in Sockets |-> FALSE]
  /\ socketRooms = [s \in Sockets |-> {}]
  /\ typingUsers = [r \in Rooms |-> [u \in Users |-> NoTyping]]
  /\ limits = [s \in Sockets |-> [a \in RateActions |-> NoLimit]]
  /\ tasks = {}
  /\ outbox = [s \in Sockets |-> <<>>]
  /\ sent = [s \in Sockets |-> 0]
  /\ cache = [r \in Rooms |-> NoCache]

\* the database once the seed script has made the seeded users members of
\* 'general' (plain INSERTs, no Redis entry) and alice has created the
\* private room 'team' over REST (createRoom: the room and her owner row)
InitSeeded ==
  /\ now = 0
  /\ memberships =
       {[user |-> u, room |-> "general", role |-> "member"] : u \in Users}
         \cup {[user |-> "alice", room |-> "team", role |-> "owner"]}
  /\ roomsDb = [r \in Rooms |-> IF r = "general"
                                THEN [type |-> "public", owner |-> None]
                                ELSE [type |-> "private", owner |-> "alice"]]
  /\ messages = <<>>
  /\ presence = [u \in Users \cup {GhostUser} |-> NoPresence]
  /\ participants = [r \in Rooms |-> {}]
  /\ sessions = [s \in Sockets |-> None]
  /\ sockState = [s \in Sockets |-> "new"]
  /\ sockToken = [s \in Sockets |-> NoToken]
  /\ sockUser = [s \in Sockets |-> None]
  /\ bound = [s \in Sockets |-> FALSE]
  /\ socketRooms = [s \in Sockets |-> {}]
  /\ typingUsers = [r \in Rooms |-> [u \in Users |-> NoTyping]]
  /\ limits = [s \in Sockets |-> [a \in RateActions |-> NoLimit]]
  /\ tasks = {}
  /\ outbox = [s \in Sockets |-> <<>>]
  /\ sent = [s \in Sockets |-> 0]
  /\ cache = [r \in Rooms |-> NoCache]

(* ------------------------------ events --------------------------------- *)
\* one record shape for every server -> client event
Event(type) ==
  [type |-> type, room |-> None, user |-> None, id |-> 0,
   content |-> NoContent, seq |-> 0, error |-> None, online |-> {},
   recent |-> NoCache]

Connected(s) == sockState[s] = "connected"

\* socket.emit(event): delivered when the transport is still open
Emit(ob, s, e) ==
  IF Connected(s) THEN [ob EXCEPT ![s] = Append(@, e)] ELSE ob

\* io.to(room).emit(event): every socket in the room, the sender included
ToRoomAll(ob, from, r, e) ==
  [x \in Sockets |->
     IF r \in socketRooms[x] /\ Connected(x)
     THEN Append(ob[x], e) ELSE ob[x]]

\* socket.to(room).emit(event): every socket in the room except the sender
ToRoom(ob, from, r, e) ==
  [x \in Sockets |->
     IF x # from /\ r \in socketRooms[x] /\ Connected(x)
     THEN Append(ob[x], e) ELSE ob[x]]


(* --------------------------- Redis helpers ----------------------------- *)
\* RedisService.getUserPresence: GET, null (NoPresence) when the key is absent
getUserPresence(u) == presence[u]

\* Redis key expiry: a SETEX key is gone once its time to live has elapsed
ExpireKeys(p, t) ==
  [u \in DOMAIN p |-> IF p[u] # NoPresence /\ t >= p[u].expireAt
                      THEN NoPresence ELSE p[u]]

\* the presence record written with the session key's one hour to live
setUserPresenceHour(p, u, status, conn) ==
  [p EXCEPT ![u] = [status |-> status, connectionId |-> conn,
                    lastActivity |-> now, expireAt |-> now + 3600000]]

\* RedisService.setUserPresence: SETEX presence:user:{id} 30 {...}
setUserPresence(p, u, status, conn) ==
  [p EXCEPT ![u] = [status |-> status, connectionId |-> conn,
                    lastActivity |-> now, expireAt |-> now + PresenceTTL]]

\* RedisService.removeUserPresence: DEL
removeUserPresence(p, u) == [p EXCEPT ![u] = NoPresence]

\* RedisService.addUserToRoom / removeUserFromRoom: SADD / SREM
addUserToRoom(ps, u, r) == [ps EXCEPT ![r] = @ \cup {u}]
removeUserFromRoom(ps, u, r) == [ps EXCEPT ![r] = @ \ {u}]

(* -------------------------- database helpers --------------------------- *)
IsMember(u, r) == \E m \in memberships : m.user = u /\ m.room = r

\* a membership check that passes for any user of the users table
validateUserExists(u, r) == u \in usersDb

\* MessageService.validateUserInRoom: TRUE when it returns, FALSE when it
\* throws 'User is not a member of this room'
validateUserInRoom(u, r) == IsMember(u, r)

\* RoomService.getUserRooms: ids of the rooms the user has a membership in
getUserRooms(u) == {m.room : m \in {x \in memberships : x.user = u}}

\* RoomService.getRoomParticipants: members with isOnline from presence
getRoomParticipants(r) ==
  {[userId |-> m.user,
    isOnline |-> (getUserPresence(m.user).status = "online")]
     : m \in {x \in memberships : x.room = r}}

\* MessageService.getMessageHistory past the cache, without cursor: SELECT
\* ... ORDER BY created_at DESC LIMIT limit + 1, the extra row telling
\* hasMore and giving nextCursor, the others reversed to oldest first
HistoryQuery(r, limit) ==
  LET ids == SelectSeq([i \in 1..Len(messages) |-> i],
                       LAMBDA i : messages[i].room = r)
      n == Len(ids)
  IN  [shape |-> "history",
       items |-> SubSeq(ids, IF n > limit THEN n - limit + 1 ELSE 1, n),
       hasMore |-> n > limit,
       nextCursor |-> IF n > limit THEN ids[n - limit] ELSE 0]

\* MessageService.getMessageHistory: what getCachedMessageHistory parsed (the
\* array cacheMessageHistory stored) when the key exists, the query otherwise
getMessageHistory(r, limit) ==
  IF cache[r].defined
  THEN [shape |-> "array", items |-> cache[r].items, hasMore |-> FALSE,
        nextCursor |-> 0]
  ELSE HistoryQuery(r, limit)

(* ------------------------------- tasks --------------------------------- *)
\* an in-flight handler invocation: its socket, its position, its locals
\* (reply is the value getMessageHistory returned: a MessageHistory object
\* or a bare array, as ids of message rows).
\* hadRooms and hadTyping are what the socket had when it closed (the
\* socket.rooms of the 'disconnecting' event, the user's typing entries); no
\* action reads them
Task(kind, s, pc) ==
  [kind |-> kind, sock |-> s, pc |-> pc, room |-> None,
   content |-> NoContent, seq |-> 0, id |-> 0, todo |-> {},
   status |-> None, conn |-> None, hadRooms |-> {}, hadTyping |-> FALSE,
   limit |-> 0,
   reply |-> [shape |-> None, items |-> <<>>, hasMore |-> FALSE,
              nextCursor |-> 0]]

Replace(t, t2) == (tasks \ {t}) \cup {t2}
Finish(t) == tasks \ {t}

(* --------------------- connection: authentication ---------------------- *)
ClientUser == [s \in Sockets |-> IF s = "s2" THEN "bob" ELSE "alice"]

\* the tokens a client may present: its own in any condition, or the valid
\* token of an account that has no users row
TokensOf(s) ==
  {[kind |-> k, user |-> ClientUser[s]] : k \in TokenKinds}
    \cup {[kind |-> "valid", user |-> GhostUser]}

\* the middleware without the getUserById lookup
AuthenticateToken(tok) ==
  IF tok.kind = "missing" THEN None
  ELSE IF tok.kind # "valid" THEN None
  ELSE tok.user

\* AuthService.verifyToken + getUserById as used by the io.use middleware:
\* the user the socket is authenticated as, or None when the middleware throws
Authenticate(tok) ==
  IF tok.kind = "missing" THEN None
  ELSE IF tok.kind # "valid" THEN None
  ELSE IF tok.user \notin usersDb THEN None
  ELSE tok.user

\* io.use(auth) then io.use(rate limiter) then the 'connection' handler up to
\* its first await (redis.setSession)
AuthMiddleware(s, tok) ==
  /\ sockState[s] = "new"
  /\ sockToken' = [sockToken EXCEPT ![s] = tok]
  /\ IF Authenticate(tok) = None
     THEN /\ sockState' = [sockState EXCEPT ![s] = "refused"]
          /\ outbox' = [outbox EXCEPT ![s] =
               Append(@, [Event("connect_error") EXCEPT
                            !.error = "Authentication failed"])]
          /\ UNCHANGED <<sockUser, limits, tasks>>
     ELSE /\ Cardinality(tasks) < MaxTasks
          /\ sockState' = [sockState EXCEPT ![s] = "connected"]
          /\ sockUser' = [sockUser EXCEPT ![s] = Authenticate(tok)]
          /\ limits' = [limits EXCEPT ![s] = [a \in RateActions |-> NoLimit]]
          /\ tasks' = tasks \cup {Task("connect", s, "setSession")}
          /\ UNCHANGED outbox
  /\ UNCHANGED <<now, memberships, roomsDb, messages, presence, participants,
                 sessions, bound, socketRooms, typingUsers, sent, cache>>

(* ---------------- connection: handleUserConnection -------------------- *)
UserJoined(u, r) == [Event("user_joined") EXCEPT !.user = u, !.room = r]
UserLeft(u, r) == [Event("user_left") EXCEPT !.user = u, !.room = r]

\* end of handleUserConnection and of the connection handler: emit
\* 'connected', then register the event handlers
ConnFinish(t) ==
  /\ outbox' = Emit(outbox, t.sock,
                    [Event("connected") EXCEPT !.user = sockUser[t.sock]])
  /\ bound' = [bound EXCEPT ![t.sock] = TRUE]
  /\ tasks' = Finish(t)

\* await redis.setSession(socket.id, socket.userId)
ConnSetSession(t) ==
  /\ t.kind = "connect" /\ t.pc = "setSession"
  /\ sessions' = [sessions EXCEPT ![t.sock] = sockUser[t.sock]]
  /\ tasks' = Replace(t, [t EXCEPT !.pc = "setPresence"])
  /\ UNCHANGED <<now, memberships, roomsDb, messages, presence, participants,
                 sockState, sockToken, cache, sockUser, bound, socketRooms,
                 typingUsers, limits, outbox, sent>>

\* await redis.setUserPresence({status: 'online', ...}); the following
\* authService.updateLastSeen touches only users.last_seen_at
ConnSetPresence(t) ==
  /\ t.kind = "connect" /\ t.pc = "setPresence"
  /\ presence' = setUserPresence(presence, sockUser[t.sock], "online", t.sock)
  /\ tasks' = Replace(t, [t EXCEPT !.pc = "getUserRooms"])
  /\ UNCHANGED <<now, memberships, roomsDb, messages, participants, sessions,
                 sockState, sockToken, cache, sockUser, bound, socketRooms,
                 typingUsers, limits, outbox, sent>>

\* await roomService.getUserRooms; then socket.join(first room) and the
\* request of its addUserToRoom, or the end of the handler when there is none
ConnGetUserRooms(t) ==
  /\ t.kind = "connect" /\ t.pc = "getUserRooms"
  /\ LET rooms == getUserRooms(sockUser[t.sock]) IN
     IF rooms = {}
     THEN /\ ConnFinish(t)
          /\ UNCHANGED socketRooms
     ELSE /\ \E r \in rooms :
               /\ socketRooms' = [socketRooms EXCEPT ![t.sock] = @ \cup {r}]
               /\ tasks' = Replace(t, [t EXCEPT !.pc = "addUserToRoom",
                                                !.room = r, !.todo = rooms \ {r}])
          /\ UNCHANGED <<outbox, bound>>
  /\ UNCHANGED <<now, memberships, roomsDb, messages, presence, participants,
                 sessions, sockState, sockToken, cache, sockUser, typingUsers,
                 limits, sent>>

\* await redis.addUserToRoom(userId, room.id); emit user_joined to the room;
\* then the next room of the loop, or the end of the handler
ConnAddUserToRoom(t) ==
  /\ t.kind = "connect" /\ t.pc = "addUserToRoom"
  /\ participants' = addUserToRoom(participants, sockUser[t.sock], t.room)
  /\ LET ob == ToRoom(outbox, t.sock, t.room, UserJoined(sockUser[t.sock], t.room)) IN
     IF t.todo = {}
     THEN /\ outbox' = Emit(ob, t.sock,
                            [Event("connected") EXCEPT !.user = sockUser[t.sock]])
          /\ bound' = [bound EXCEPT ![t.sock] = TRUE]
          /\ tasks' = Finish(t)
          /\ UNCHANGED socketRooms
     ELSE /\ outbox' = ob
          /\ \E r \in t.todo :
               /\ socketRooms' = [socketRooms EXCEPT ![t.sock] = @ \cup {r}]
               /\ tasks' = Replace(t, [t EXCEPT !.room = r, !.todo = t.todo \ {r}])
          /\ UNCHANGED bound
  /\ UNCHANGED <<now, memberships, roomsDb, messages, presence, sessions,
                 sockState, sockToken, cache, sockUser, typingUsers, limits, sent>>

(* ------------------- disconnect: handleDisconnection ------------------- *)
\* cleanupTypingForUser: clear the timers and delete the entries of the user
cleanupTypingForUser(tu, u) ==
  [r \in Rooms |-> [x \in Users |-> IF x = u THEN NoTyping ELSE tu[r][x]]]

\* the transport closes: socket.io removes the socket from its rooms, then
\* fires 'disconnect', which runs handleDisconnection when it is registered
ClientDisconnect(s) ==
  /\ sockState[s] = "connected"
  /\ sockState' = [sockState EXCEPT ![s] = "closed"]
  /\ socketRooms' = [socketRooms EXCEPT ![s] = {}]
  /\ IF bound[s]
     THEN /\ Cardinality(tasks) < MaxTasks
          /\ tasks' = tasks \cup
               {[Task("disconnect", s, "removePresence") EXCEPT
                   !.hadRooms = socketRooms[s],
                   !.hadTyping = \E r \in Rooms :
                                   typingUsers[r][sockUser[s]] # NoTyping]}
     ELSE UNCHANGED tasks
  /\ UNCHANGED <<now, memberships, roomsDb, messages, presence, participants,
                 sessions, sockToken, cache, sockUser, bound, typingUsers, limits,
                 outbox, sent>>

\* await redis.removeUserPresence(socket.userId)
DiscRemovePresence(t) ==
  /\ t.kind = "disconnect" /\ t.pc = "removePresence"
  /\ presence' = removeUserPresence(presence, sockUser[t.sock])
  /\ tasks' = Replace(t, [t EXCEPT !.pc = "getUserRooms"])
  /\ UNCHANGED <<now, memberships, roomsDb, messages, participants, sessions,
                 sockState, sockToken, cache, sockUser, bound, socketRooms,
                 typingUsers, limits, outbox, sent>>

\* await roomService.getUserRooms; with no room the loop is skipped and
\* cleanupTypingForUser runs before the request of removeSession
DiscGetUserRooms(t) ==
  /\ t.kind = "disconnect" /\ t.pc = "getUserRooms"
  /\ LET rooms == getUserRooms(sockUser[t.sock]) IN
     IF rooms = {}
     THEN /\ typingUsers' = cleanupTypingForUser(typingUsers, sockUser[t.sock])
          /\ tasks' = Replace(t, [t EXCEPT !.pc = "removeSession"])
     ELSE /\ \E r \in rooms :
               tasks' = Replace(t, [t EXCEPT !.pc = "removeUserFromRoom",
                                             !.room = r, !.todo = rooms \ {r}])
          /\ UNCHANGED typingUsers
  /\ UNCHANGED <<now, memberships, roomsDb, messages, presence, participants,
                 sessions, sockState, sockToken, cache, sockUser, bound, socketRooms,
                 limits, outbox, sent>>

\* await redis.removeUserFromRoom; emit user_left to the room; after the
\* last room cleanupTypingForUser runs before the request of removeSession
DiscRemoveUserFromRoom(t) ==
  /\ t.kind = "disconnect" /\ t.pc = "removeUserFromRoom"
  /\ participants' = removeUserFromRoom(participants, sockUser[t.sock], t.room)
  /\ outbox' = ToRoom(outbox, t.sock, t.room, UserLeft(sockUser[t.sock], t.room))
  /\ IF t.todo = {}
     THEN /\ typingUsers' = cleanupTypingForUser(typingUsers, sockUser[t.sock])
          /\ tasks' = Replace(t, [t EXCEPT !.pc = "removeSession", !.room = None])
     ELSE /\ \E r \in t.todo :
               tasks' = Replace(t, [t EXCEPT !.room = r, !.todo = t.todo \ {r}])
          /\ UNCHANGED typingUsers
  /\ UNCHANGED <<now, memberships, roomsDb, messages, presence, sessions,
                 sockState, sockToken, cache, sockUser, bound, socketRooms, limits,
                 sent>>

\* await redis.removeSession(socket.id): handleDisconnection completes
DiscRemoveSession(t) ==
  /\ t.kind = "disconnect" /\ t.pc = "removeSession"
  /\ sessions' = [sessions EXCEPT ![t.sock] = None]
  /\ tasks' = Finish(t)
  /\ UNCHANGED <<now, memberships, roomsDb, messages, presence, participants,
                 sockState, sockToken, cache, sockUser, bound, socketRooms,
                 typingUsers, limits, outbox, sent>>


(* ----------------------------- rate limiter ---------------------------- *)
\* actionLimits[action] || 100
ActionLimit(a) ==
  CASE a = "send_message" -> SendLimit
    [] a = "join_room" -> JoinLimit
    [] a = "update_presence" -> PresenceLimit
    [] a = "start_typing" -> TypingLimit
    [] OTHER -> DefaultLimit

\* the limiter with the comparison count > limit
rateLimiterAbove(w, a) ==
  IF w = NoLimit \/ now > w.resetTime
  THEN [ok |-> TRUE, w |-> [count |-> 1, resetTime |-> now + RateWindow]]
  ELSE IF w.count > ActionLimit(a)
  THEN [ok |-> FALSE, w |-> w]
  ELSE [ok |-> TRUE, w |-> [w EXCEPT !.count = @ + 1]]

\* the closure returned by createRateLimiter, applied to the window of one
\* (socket, action) key: the verdict and the window it leaves
rateLimiter(w, a) ==
  IF w = NoLimit \/ now > w.resetTime
  THEN [ok |-> TRUE, w |-> [count |-> 1, resetTime |-> now + RateWindow]]
  ELSE IF w.count >= ActionLimit(a)
  THEN [ok |-> FALSE, w |-> w]
  ELSE [ok |-> TRUE, w |-> [w EXCEPT !.count = @ + 1]]

RateLimitExceeded(a) == [Event("rate_limit_exceeded") EXCEPT !.error = a]

\* a limiter that lets every request through
checkRateLimitOff(s, a) == TRUE

\* a limiter whose windows are kept per user instead of per socket id
LimitsAfterUser(s, a) ==
  [x \in Sockets |->
     IF sockUser[x] = sockUser[s]
     THEN [limits[x] EXCEPT ![a] = rateLimiter(limits[s][a], a).w]
     ELSE limits[x]]

\* checkRateLimit: the verdict; the limiter state moves in either case
checkRateLimit(s, a) == rateLimiter(limits[s][a], a).ok
LimitsAfter(s, a) == [limits EXCEPT ![s][a] = rateLimiter(limits[s][a], a).w]

RECURSIVE SumOver(_, _)
SumOver(f, S) ==
  IF S = {} THEN 0
  ELSE LET x == CHOOSE y \in S : TRUE IN f[x] + SumOver(f, S \ {x})

\* a bound handler of a connected socket receives the client's next event;
\* cap bounds the events the clients emit in a run
Receives(s, cap) ==
  /\ Connected(s) /\ bound[s]
  /\ SumOver(sent, Sockets) < cap

(* ------------------------- REST: create a room ------------------------- *)
\* RoomService.createRoom: one transaction inserting the chat_rooms row and
\* the creator's owner membership
CreateRoom(u, r, type) ==
  /\ roomsDb[r] = NoRoomRow
  /\ roomsDb' = [roomsDb EXCEPT ![r] = [type |-> type, owner |-> u]]
  /\ memberships' = memberships \cup {[user |-> u, room |-> r, role |-> "owner"]}
  /\ UNCHANGED <<now, messages, presence, participants, sessions, sockState,
                 sockToken, cache, sockUser, bound, socketRooms, typingUsers, limits,
                 tasks, outbox, sent>>

(* ---------------------- messaging: handleSendMessage ------------------- *)
\* String.prototype.trim on the content
Trim(c) == [pad |-> 0, len |-> c.len]

\* a table without the content_length constraint
ContentLengthAny(c) == TRUE

\* CONSTRAINT content_length of the messages table, for type 'text'
ContentLengthOk(c) == Len0(c) >= 1 /\ Len0(c) <= MaxTextLen

SendError(r, e) == [Event("send_message_error") EXCEPT !.room = r, !.error = e]
MessageSent(m) == [Event("message_sent") EXCEPT !.id = m.id, !.room = m.room]
MessageReceived(m, author) ==
  [Event("message_received") EXCEPT !.id = m.id, !.room = m.room,
     !.content = m.content, !.user = author, !.seq = m.seq]

\* the row of a task's message
RowOf(id) == messages[id]

\* socket.emit('message_sent') then socket.to(roomId).emit('message_received')
SendAnnounce(ob, t) ==
  ToRoom(Emit(ob, t.sock, MessageSent(RowOf(t.id))), t.sock, t.room,
         MessageReceived(RowOf(t.id), sockUser[t.sock]))

\* the client emits send_message{roomId, content, metadata}; the handler runs
\* up to its first await (the membership query of createMessage)
SendMessage(s, r, c, cap) ==
  /\ Receives(s, cap)
  /\ sent' = [sent EXCEPT ![s] = @ + 1]
  /\ limits' = LimitsAfter(s, "send_message")
  /\ IF ~checkRateLimit(s, "send_message")
     THEN /\ outbox' = Emit(outbox, s, RateLimitExceeded("send_message"))
          /\ UNCHANGED tasks
     ELSE IF r = None \/ Len0(c) = 0
     THEN /\ outbox' = Emit(outbox, s, SendError(None, "missing_required_fields"))
          /\ UNCHANGED tasks
     ELSE /\ Cardinality(tasks) < MaxTasks
          /\ tasks' = tasks \cup
               {[Task("send", s, "validate") EXCEPT
                   !.room = r, !.content = Trim(c), !.seq = sent[s] + 1]}
          /\ UNCHANGED outbox
  /\ UNCHANGED <<now, memberships, roomsDb, messages, presence, participants,
                 sessions, sockState, sockToken, cache, sockUser, bound, socketRooms,
                 typingUsers>>

\* createMessage: await validateUserInRoom (throws for a non-member)
SendValidate(t) ==
  /\ t.kind = "send" /\ t.pc = "validate"
  /\ IF validateUserInRoom(sockUser[t.sock], t.room)
     THEN /\ tasks' = Replace(t, [t EXCEPT !.pc = "insert"])
          /\ UNCHANGED outbox
     ELSE /\ tasks' = Finish(t)
          /\ outbox' = Emit(outbox, t.sock, SendError(t.room, "send_failed"))
  /\ UNCHANGED <<now, memberships, roomsDb, messages, presence, participants,
                 sessions, sockState, sockToken, cache, sockUser, bound, socketRooms,
                 typingUsers, limits, sent>>

\* createMessage: await INSERT INTO messages ... RETURNING (throws when the
\* content_length constraint rejects the row)
SendInsert(t) ==
  /\ t.kind = "send" /\ t.pc = "insert"
  /\ IF ContentLengthOk(t.content)
     THEN /\ messages' = Append(messages,
               [id |-> Len(messages) + 1, room |-> t.room,
                user |-> sockUser[t.sock], content |-> t.content, seq |-> t.seq])
          /\ tasks' = Replace(t, [t EXCEPT !.pc = "updateRoom",
                                           !.id = Len(messages) + 1])
          /\ UNCHANGED outbox
     ELSE /\ tasks' = Finish(t)
          /\ outbox' = Emit(outbox, t.sock, SendError(t.room, "send_failed"))
          /\ UNCHANGED messages
  /\ UNCHANGED <<now, memberships, roomsDb, presence, participants, sessions,
                 sockState, sockToken, cache, sockUser, bound, socketRooms,
                 typingUsers, limits, sent>>

\* createMessage: await UPDATE chat_rooms SET updated_at, await
\* clearMessageCache (KEYS cache:messages:{room}:*, DEL); then the request
\* of updateUserActivity's GET
SendUpdateRoom(t) ==
  /\ t.kind = "send" /\ t.pc = "updateRoom"
  /\ tasks' = Replace(t, [t EXCEPT !.pc = "getPresence"])
  /\ cache' = [cache EXCEPT ![t.room] = NoCache]
  /\ UNCHANGED <<now, memberships, roomsDb, messages, presence, participants,
                 sessions, sockState, sockToken, sockUser, bound, socketRooms,
                 typingUsers, limits, outbox, sent>>

\* updateUserActivity: await getUserPresence; with no record it returns and
\* the handler announces the message
SendGetPresence(t) ==
  /\ t.kind = "send" /\ t.pc = "getPresence"
  /\ IF getUserPresence(sockUser[t.sock]) = NoPresence
     THEN /\ tasks' = Finish(t)
          /\ outbox' = SendAnnounce(outbox, t)
     ELSE /\ tasks' = Replace(t, [t EXCEPT !.pc = "setPresence",
               !.conn = getUserPresence(sockUser[t.sock]).connectionId])
          /\ UNCHANGED outbox
  /\ UNCHANGED <<now, memberships, roomsDb, messages, presence, participants,
                 sessions, sockState, sockToken, cache, sockUser, bound, socketRooms,
                 typingUsers, limits, sent>>

\* updateUserActivity: await setUserPresence of the record read, as online;
\* then the handler announces the message
SendSetPresence(t) ==
  /\ t.kind = "send" /\ t.pc = "setPresence"
  /\ presence' = setUserPresence(presence, sockUser[t.sock], "online", t.conn)
  /\ tasks' = Finish(t)
  /\ outbox' = SendAnnounce(outbox, t)
  /\ UNCHANGED <<now, memberships, roomsDb, messages, participants, sessions,
                 sockState, sockToken, cache, sockUser, bound, socketRooms,
                 typingUsers, limits, sent>>

(* --------------------------- typing indicators ------------------------- *)
UserTyping(u, r) == [Event("user_typing") EXCEPT !.user = u, !.room = r]
UserStoppedTyping(u, r) == [Event("user_stopped_typing") EXCEPT !.user = u, !.room = r]

\* handleStartTyping past the rate limit and the roomId check: replace the
\* entry and its timer, then broadcast user_typing
startTyping(s, r) ==
  /\ typingUsers' = [typingUsers EXCEPT ![r][sockUser[s]] =
                       [sock |-> s, deadline |-> now + TypingTimeout]]
  /\ outbox' = ToRoom(outbox, s, r, UserTyping(sockUser[s], r))

\* the client emits start_typing{roomId}
StartTyping(s, r, cap) ==
  /\ Receives(s, cap)
  /\ sent' = [sent EXCEPT ![s] = @ + 1]
  /\ limits' = LimitsAfter(s, "start_typing")
  /\ IF ~checkRateLimit(s, "start_typing")
     THEN /\ outbox' = Emit(outbox, s, RateLimitExceeded("start_typing"))
          /\ UNCHANGED typingUsers
     ELSE IF r = None
     THEN UNCHANGED <<outbox, typingUsers>>
     ELSE startTyping(s, r)
  /\ UNCHANGED <<now, memberships, roomsDb, messages, presence, participants,
                 sessions, sockState, sockToken, cache, sockUser, bound, socketRooms,
                 tasks>>

\* a stop that broadcasts whether or not an entry exists
handleStopTypingAlways(s, r) ==
  IF r = None
  THEN UNCHANGED <<outbox, typingUsers>>
  ELSE /\ typingUsers' = [typingUsers EXCEPT ![r][sockUser[s]] = NoTyping]
       /\ outbox' = ToRoom(outbox, s, r, UserStoppedTyping(sockUser[s], r))

\* handleStopTyping(socket, {roomId}): nothing without an entry; otherwise
\* clear the timer, delete the entry, broadcast user_stopped_typing
handleStopTyping(s, r) ==
  IF r = None \/ typingUsers[r][sockUser[s]] = NoTyping
  THEN UNCHANGED <<outbox, typingUsers>>
  ELSE /\ typingUsers' = [typingUsers EXCEPT ![r][sockUser[s]] = NoTyping]
       /\ outbox' = ToRoom(outbox, s, r, UserStoppedTyping(sockUser[s], r))

\* the client emits stop_typing{roomId}
StopTyping(s, r, cap) ==
  /\ Receives(s, cap)
  /\ sent' = [sent EXCEPT ![s] = @ + 1]
  /\ handleStopTyping(s, r)
  /\ UNCHANGED <<now, memberships, roomsDb, messages, presence, participants,
                 sessions, sockState, sockToken, cache, sockUser, bound, socketRooms,
                 limits, tasks>>

\* a timer whose callback may run at once, whatever its delay
TimerImmediate(e) == TRUE

\* setTimeout(..., 3000): the callback is due once the delay has elapsed
TimerDue(e) == now >= e.deadline

\* the setTimeout callback of an entry runs, not before its 3000 ms
TypingTimerFires(r, u) ==
  /\ typingUsers[r][u] # NoTyping
  /\ TimerDue(typingUsers[r][u])
  /\ handleStopTyping(typingUsers[r][u].sock, r)
  /\ UNCHANGED <<now, memberships, roomsDb, messages, presence, participants,
                 sessions, sockState, sockToken, cache, sockUser, bound, socketRooms,
                 limits, tasks, sent>>

(* -------------------------------- time --------------------------------- *)
\* the clock advances by d ms; Redis drops the keys whose TTL has elapsed
Tick(d) ==
  /\ now + d <= MaxTime
  /\ now' = now + d
  /\ presence' = ExpireKeys(presence, now + d)
  /\ UNCHANGED <<memberships, roomsDb, messages, participants, sessions,
                 sockState, sockToken, cache, sockUser, bound, socketRooms,
                 typingUsers, limits, tasks, outbox, sent>>


(* ------------------------ rooms: handleJoinRoom ------------------------ *)
JoinError(r, e) == [Event("join_room_error") EXCEPT !.room = r, !.error = e]
RoomJoined(r, h) ==
  [Event("room_joined") EXCEPT !.room = r,
     !.recent = IF h.shape = "history"
                THEN [defined |-> TRUE, items |-> h.items] ELSE NoCache,
     !.online = {p.userId : p \in {q \in getRoomParticipants(r) : q.isOnline}}]

\* the client emits join_room{roomId}; the handler runs up to the first
\* await of roomService.joinRoom (the query for an existing membership)
JoinRoom(s, r, cap) ==
  /\ Receives(s, cap)
  /\ sent' = [sent EXCEPT ![s] = @ + 1]
  /\ limits' = LimitsAfter(s, "join_room")
  /\ IF ~checkRateLimit(s, "join_room")
     THEN /\ outbox' = Emit(outbox, s, RateLimitExceeded("join_room"))
          /\ UNCHANGED tasks
     ELSE IF r = None
     THEN /\ outbox' = Emit(outbox, s, JoinError(None, "missing_room_id"))
          /\ UNCHANGED tasks
     ELSE /\ Cardinality(tasks) < MaxTasks
          /\ tasks' = tasks \cup {[Task("join", s, "existing") EXCEPT !.room = r]}
          /\ UNCHANGED outbox
  /\ UNCHANGED <<now, memberships, roomsDb, messages, presence, participants,
                 sessions, sockState, sockToken, cache, sockUser, bound, socketRooms,
                 typingUsers>>

\* joinRoom: await SELECT of the existing membership; when there is one it is
\* returned, and the handler does socket.join and requests the room details
JoinExisting(t) ==
  /\ t.kind = "join" /\ t.pc = "existing"
  /\ IF IsMember(sockUser[t.sock], t.room)
     THEN /\ socketRooms' = [socketRooms EXCEPT ![t.sock] = @ \cup {t.room}]
          /\ tasks' = Replace(t, [t EXCEPT !.pc = "getHistory",
                                           !.status = "existing"])
     ELSE /\ tasks' = Replace(t, [t EXCEPT !.pc = "roomRow"])
          /\ UNCHANGED socketRooms
  /\ UNCHANGED <<now, memberships, roomsDb, messages, presence, participants,
                 sessions, sockState, sockToken, cache, sockUser, bound, typingUsers,
                 limits, outbox, sent>>

\* a joinRoom that does not look at the room's type
JoinRoomRowOpen(t) ==
  /\ t.kind = "join" /\ t.pc = "roomRow"
  /\ IF roomsDb[t.room] = NoRoomRow
     THEN /\ tasks' = Finish(t)
          /\ outbox' = Emit(outbox, t.sock, JoinError(t.room, "Room not found"))
     ELSE /\ tasks' = Replace(t, [t EXCEPT !.pc = "insert"])
          /\ UNCHANGED outbox
  /\ UNCHANGED <<now, memberships, roomsDb, messages, presence, participants,
                 sessions, sockState, sockToken, cache, sockUser, bound, socketRooms,
                 typingUsers, limits, sent>>

\* joinRoom: await SELECT type FROM chat_rooms; throws for a missing or a
\* private room
JoinRoomRow(t) ==
  /\ t.kind = "join" /\ t.pc = "roomRow"
  /\ IF roomsDb[t.room] = NoRoomRow
     THEN /\ tasks' = Finish(t)
          /\ outbox' = Emit(outbox, t.sock, JoinError(t.room, "Room not found"))
     ELSE IF roomsDb[t.room].type = "private"
     THEN /\ tasks' = Finish(t)
          /\ outbox' = Emit(outbox, t.sock,
               JoinError(t.room, "Cannot join private room without invitation"))
     ELSE /\ tasks' = Replace(t, [t EXCEPT !.pc = "insert"])
          /\ UNCHANGED outbox
  /\ UNCHANGED <<now, memberships, roomsDb, messages, presence, participants,
                 sessions, sockState, sockToken, cache, sockUser, bound, socketRooms,
                 typingUsers, limits, sent>>

\* a leaveRoom transaction holds the uncommitted DELETE of the user's row
DeletePending(u, r) ==
  \E l \in tasks : /\ l.kind = "leave" /\ l.pc \in {"removeUserFromRoom", "commit"}
                   /\ sockUser[l.sock] = u /\ l.room = r

\* joinRoom: await INSERT INTO room_memberships; UNIQUE(user_id, room_id)
\* rejects a second row, once a transaction deleting the row has ended
JoinInsert(t) ==
  /\ t.kind = "join" /\ t.pc = "insert"
  /\ ~(IsMember(sockUser[t.sock], t.room) /\ DeletePending(sockUser[t.sock], t.room))
  /\ IF IsMember(sockUser[t.sock], t.room)
     THEN /\ tasks' = Finish(t)
          /\ outbox' = Emit(outbox, t.sock, JoinError(t.room, "duplicate key"))
          /\ UNCHANGED memberships
     ELSE /\ memberships' = memberships \cup
               {[user |-> sockUser[t.sock], room |-> t.room, role |-> "member"]}
          /\ tasks' = Replace(t, [t EXCEPT !.pc = "addUserToRoom"])
          /\ UNCHANGED outbox
  /\ UNCHANGED <<now, roomsDb, messages, presence, participants, sessions,
                 sockState, sockToken, cache, sockUser, bound, socketRooms,
                 typingUsers, limits, sent>>

\* joinRoom: await redis.addUserToRoom
JoinAddUserToRoom(t) ==
  /\ t.kind = "join" /\ t.pc = "addUserToRoom"
  /\ participants' = addUserToRoom(participants, sockUser[t.sock], t.room)
  /\ tasks' = Replace(t, [t EXCEPT !.pc = "updateRoom"])
  /\ UNCHANGED <<now, memberships, roomsDb, messages, presence, sessions,
                 sockState, sockToken, cache, sockUser, bound, socketRooms,
                 typingUsers, limits, outbox, sent>>

\* joinRoom: await UPDATE chat_rooms SET updated_at; it returns the new
\* membership, and the handler does socket.join and requests the room details
JoinUpdateRoom(t) ==
  /\ t.kind = "join" /\ t.pc = "updateRoom"
  /\ socketRooms' = [socketRooms EXCEPT ![t.sock] = @ \cup {t.room}]
  /\ tasks' = Replace(t, [t EXCEPT !.pc = "getHistory"])
  /\ UNCHANGED <<now, memberships, roomsDb, messages, presence, participants,
                 sessions, sockState, sockToken, cache, sockUser, bound, typingUsers,
                 limits, outbox, sent>>

\* await getRoomById, await getMessageHistory(roomId, userId, 50): the latter
\* validates the membership and throws without one, then answers from the
\* cache or from the table, which it then caches (cacheMessageHistory: SETEX
\* cache:messages:{room}:latest 300 of messageHistory.messages)
JoinGetHistory(t) ==
  /\ t.kind = "join" /\ t.pc = "getHistory"
  /\ IF validateUserInRoom(sockUser[t.sock], t.room)
     THEN /\ tasks' = Replace(t, [t EXCEPT !.pc = "getParticipants",
               !.reply = getMessageHistory(t.room, HistoryLimit)])
          /\ cache' = IF cache[t.room].defined THEN cache
                       ELSE [cache EXCEPT ![t.room] =
                               [defined |-> TRUE,
                                items |-> HistoryQuery(t.room, HistoryLimit).items]]
          /\ UNCHANGED outbox
     ELSE /\ tasks' = Finish(t)
          /\ outbox' = Emit(outbox, t.sock,
               JoinError(t.room, "User is not a member of this room"))
          /\ UNCHANGED cache
  /\ UNCHANGED <<now, memberships, roomsDb, messages, presence, participants,
                 sessions, sockState, sockToken, sockUser, bound, socketRooms,
                 typingUsers, limits, sent>>

\* await getRoomParticipants; emit room_joined, then user_joined to the room
JoinGetParticipants(t) ==
  /\ t.kind = "join" /\ t.pc = "getParticipants"
  /\ tasks' = Finish(t)
  /\ outbox' = ToRoom(Emit(outbox, t.sock, RoomJoined(t.room, t.reply)), t.sock, t.room,
                      UserJoined(sockUser[t.sock], t.room))
  /\ UNCHANGED <<now, memberships, roomsDb, messages, presence, participants,
                 sessions, sockState, sockToken, cache, sockUser, bound, socketRooms,
                 typingUsers, limits, sent>>

(* ----------------------- rooms: handleLeaveRoom ------------------------ *)
LeaveError(r, e) == [Event("leave_room_error") EXCEPT !.room = r, !.error = e]
RoomLeft(r) == [Event("room_left") EXCEPT !.room = r]

RoleOf(u, r) == (CHOOSE m \in memberships : m.user = u /\ m.room = r).role

\* leaveRoom's new owner: ORDER BY role DESC, joined_at ASC LIMIT 1 over the
\* other admins and members ('member' sorts before 'admin' in DESC order)
NewOwnerCandidates(u, r) ==
  LET others == {m \in memberships : m.room = r /\ m.user # u
                                      /\ m.role \in {"admin", "member"}}
      first == IF \E m \in others : m.role = "member"
               THEN {m \in others : m.role = "member"} ELSE others
  IN {m.user : m \in first}

\* the client emits leave_room{roomId}; the handler runs up to the first
\* query of roomService.leaveRoom's transaction
LeaveRoom(s, r, cap) ==
  /\ Receives(s, cap)
  /\ sent' = [sent EXCEPT ![s] = @ + 1]
  /\ IF r = None
     THEN /\ outbox' = Emit(outbox, s, LeaveError(None, "missing_room_id"))
          /\ UNCHANGED tasks
     ELSE /\ Cardinality(tasks) < MaxTasks
          /\ tasks' = tasks \cup {[Task("leave", s, "select") EXCEPT !.room = r]}
          /\ UNCHANGED outbox
  /\ UNCHANGED <<now, memberships, roomsDb, messages, presence, participants,
                 sessions, sockState, sockToken, cache, sockUser, bound, socketRooms,
                 typingUsers, limits>>

\* a leaveRoom that goes on whether or not the SELECT finds a row
LeaveSelectAny(t) ==
  /\ t.kind = "leave" /\ t.pc = "select"
  /\ tasks' = Replace(t, [t EXCEPT !.pc = "removeUserFromRoom", !.status = "member"])
  /\ UNCHANGED <<now, memberships, roomsDb, messages, presence, participants,
                 sessions, sockState, sockToken, cache, sockUser, bound, socketRooms,
                 typingUsers, limits, outbox, sent>>

\* leaveRoom: BEGIN, await SELECT role; throws (ROLLBACK) for a non-member;
\* otherwise the ownership transfer and the DELETE run inside the transaction
LeaveSelect(t) ==
  /\ t.kind = "leave" /\ t.pc = "select"
  /\ IF IsMember(sockUser[t.sock], t.room)
     THEN /\ tasks' = Replace(t, [t EXCEPT !.pc = "removeUserFromRoom",
               !.status = RoleOf(sockUser[t.sock], t.room)])
          /\ UNCHANGED outbox
     ELSE /\ tasks' = Finish(t)
          /\ outbox' = Emit(outbox, t.sock,
               LeaveError(t.room, "User is not a member of this room"))
  /\ UNCHANGED <<now, memberships, roomsDb, messages, presence, participants,
                 sessions, sockState, sockToken, cache, sockUser, bound, socketRooms,
                 typingUsers, limits, sent>>

\* leaveRoom: await redis.removeUserFromRoom, still inside the transaction
LeaveRemoveUserFromRoom(t) ==
  /\ t.kind = "leave" /\ t.pc = "removeUserFromRoom"
  /\ participants' = removeUserFromRoom(participants, sockUser[t.sock], t.room)
  /\ tasks' = Replace(t, [t EXCEPT !.pc = "commit"])
  /\ UNCHANGED <<now, memberships, roomsDb, messages, presence, sessions,
                 sockState, sockToken, cache, sockUser, bound, socketRooms,
                 typingUsers, limits, outbox, sent>>

\* the rows after the transaction: the new owner, without the leaver's row
LeaveRows(u, r, n) ==
  {IF m.user = n /\ m.room = r THEN [m EXCEPT !.role = "owner"] ELSE m
     : m \in {x \in memberships : ~(x.user = u /\ x.room = r)}}

\* leaveRoom: COMMIT makes the transfer of ownership and the DELETE visible;
\* the handler does socket.leave, emits room_left, then user_left to the room
LeaveCommit(t) ==
  /\ t.kind = "leave" /\ t.pc = "commit"
  /\ LET u == sockUser[t.sock]
         c == IF t.status = "owner" THEN NewOwnerCandidates(u, t.room) ELSE {} IN
     IF c = {}
     THEN /\ memberships' = LeaveRows(u, t.room, None)
          /\ UNCHANGED roomsDb
     ELSE \E n \in c :
          /\ memberships' = LeaveRows(u, t.room, n)
          /\ roomsDb' = [roomsDb EXCEPT ![t.room].owner = n]
  /\ socketRooms' = [socketRooms EXCEPT ![t.sock] = @ \ {t.room}]
  /\ outbox' = [x \in Sockets |->
       IF x = t.sock
       THEN Emit(outbox, x, RoomLeft(t.room))[x]
       ELSE IF t.room \in socketRooms[x] /\ Connected(x)
       THEN Append(outbox[x], UserLeft(sockUser[t.sock], t.room))
       ELSE outbox[x]]
  /\ tasks' = Finish(t)
  /\ UNCHANGED <<now, messages, presence, participants, sessions, sockState,
                 sockToken, cache, sockUser, bound, typingUsers, limits, sent>>

(* -------------------- presence: handleUpdatePresence ------------------- *)
\* a status check that lets 'busy' through
PresenceStatusesWide == {"online", "away", "offline", "busy"}

\* the statuses handleUpdatePresence accepts
PresenceStatuses == {"online", "away", "offline"}
PresenceError(e) == [Event("update_presence_error") EXCEPT !.error = e]
PresenceUpdated(st) == [Event("presence_updated") EXCEPT !.error = st]
PresenceChanged(u, st) == [Event("presence_changed") EXCEPT !.user = u, !.error = st]

\* the client emits update_presence{status}; the handler runs up to its
\* await of setUserPresence
UpdatePresence(s, st, cap) ==
  /\ Receives(s, cap)
  /\ sent' = [sent EXCEPT ![s] = @ + 1]
  /\ limits' = LimitsAfter(s, "update_presence")
  /\ IF ~checkRateLimit(s, "update_presence")
     THEN /\ outbox' = Emit(outbox, s, RateLimitExceeded("update_presence"))
          /\ UNCHANGED tasks
     ELSE IF st \notin PresenceStatuses
     THEN /\ outbox' = Emit(outbox, s, PresenceError("invalid_status"))
          /\ UNCHANGED tasks
     ELSE /\ Cardinality(tasks) < MaxTasks
          /\ tasks' = tasks \cup
               {[Task("presence", s, "setPresence") EXCEPT
                   !.status = st, !.seq = sent[s] + 1]}
          /\ UNCHANGED outbox
  /\ UNCHANGED <<now, memberships, roomsDb, messages, presence, participants,
                 sessions, sockState, sockToken, cache, sockUser, bound, socketRooms,
                 typingUsers>>

\* await redis.setUserPresence; emit presence_updated
PresenceSet(t) ==
  /\ t.kind = "presence" /\ t.pc = "setPresence"
  /\ presence' = setUserPresence(presence, sockUser[t.sock], t.status, t.sock)
  /\ outbox' = Emit(outbox, t.sock, PresenceUpdated(t.status))
  /\ tasks' = Replace(t, [t EXCEPT !.pc = "getUserRooms"])
  /\ UNCHANGED <<now, memberships, roomsDb, messages, participants, sessions,
                 sockState, sockToken, cache, sockUser, bound, socketRooms,
                 typingUsers, limits, sent>>

RECURSIVE AppendTimes(_, _, _)
AppendTimes(q, e, n) == IF n = 0 THEN q ELSE AppendTimes(Append(q, e), e, n - 1)

\* await getUserRooms; emit presence_changed to each of the user's rooms
PresenceBroadcast(t) ==
  /\ t.kind = "presence" /\ t.pc = "getUserRooms"
  /\ outbox' = [x \in Sockets |->
       IF x # t.sock /\ Connected(x)
       THEN AppendTimes(outbox[x], PresenceChanged(sockUser[t.sock], t.status),
              Cardinality(getUserRooms(sockUser[t.sock]) \cap socketRooms[x]))
       ELSE outbox[x]]
  /\ tasks' = Finish(t)
  /\ UNCHANGED <<now, memberships, roomsDb, messages, presence, participants,
                 sessions, sockState, sockToken, cache, sockUser, bound, socketRooms,
                 typingUsers, limits, sent>>



(* --------------------------- specifications ---------------------------- *)
ValidToken(s) == [kind |-> "valid", user |-> ClientUser[s]]

OkContent == [pad |-> 1, len |-> 1]
BlankContent == [pad |-> 1, len |-> 0]

\* Messaging between the seeded members: alice (s1) sends to 'general', with
\* and without text; bob (s2) sends to 'general' and to alice's private room
ChatSockets == {"s1", "s2"}

NextChat ==
  \/ \E s \in ChatSockets : AuthMiddleware(s, ValidToken(s))
  \/ \E t \in tasks : ConnSetSession(t)
  \/ \E t \in tasks : ConnSetPresence(t)
  \/ \E t \in tasks : ConnGetUserRooms(t)
  \/ \E t \in tasks : ConnAddUserToRoom(t)
  \/ \E t \in tasks : SendValidate(t)
  \/ \E t \in tasks : SendInsert(t)
  \/ \E t \in tasks : SendUpdateRoom(t)
  \/ \E t \in tasks : SendGetPresence(t)
  \/ \E t \in tasks : SendSetPresence(t)
  \/ \E c \in {OkContent, BlankContent} : SendMessage("s1", "general", c, MaxEvents)
  \/ \E r \in Rooms : SendMessage("s2", r, OkContent, MaxEvents)

SpecChat == InitSeeded /\ [][NextChat]_vars

(* ------------------------------- claims -------------------------------- *)
CountOf(q, type, id) ==
  Cardinality({i \in 1..Len(q) : q[i].type = type /\ q[i].id = id})

\* the send task t ends in this step
Ends(t) ==
  ~\E t2 \in tasks' : t2.kind = t.kind /\ t2.sock = t.sock /\ t2.seq = t.seq
                      /\ t2.room = t.room

\* C1: the messages one session sends to one room reach every other session
\* subscribed to the room in the order the handler accepted them (the
\* client's sequence number, carried in the metadata), whatever the order in
\* which the awaits of the two handlers resolve.
C1_Claim ==
  \A x \in Sockets : \A i, j \in 1..Len(outbox[x]) :
    (/\ i < j
     /\ outbox[x][i].type = "message_received"
     /\ outbox[x][j].type = "message_received"
     /\ outbox[x][i].room = outbox[x][j].room
     /\ outbox[x][i].user = outbox[x][j].user)
    => outbox[x][i].seq < outbox[x][j].seq

\* C2: when the handler of an accepted send_message announces the message,
\* every other connected socket in the room is sent one message_received with
\* the stored content and the sender as author, the sender is sent one
\* message_sent with the id and no message_received, nobody else is sent
\* anything, and no socket ever holds two announcements of one message.
C2_Step ==
  \A t \in tasks :
    (t.kind = "send" /\ t.id > 0 /\ Ends(t)) =>
      /\ outbox'[t.sock] =
           IF Connected(t.sock)
           THEN Append(outbox[t.sock],
                  [Event("message_sent") EXCEPT !.id = t.id, !.room = t.room])
           ELSE outbox[t.sock]
      /\ \A x \in Sockets \ {t.sock} :
           outbox'[x] =
             IF t.room \in socketRooms[x] /\ Connected(x)
             THEN Append(outbox[x],
                    [Event("message_received") EXCEPT
                       !.id = t.id, !.room = t.room, !.seq = t.seq,
                       !.content = messages[t.id].content,
                       !.user = sockUser[t.sock]])
             ELSE outbox[x]
      /\ messages[t.id].user = sockUser[t.sock]
      /\ CountOf(outbox'[t.sock], "message_received", t.id) = 0

C2_Once ==
  \A x \in Sockets : \A id \in 1..Len(messages) :
    /\ CountOf(outbox[x], "message_received", id) <= 1
    /\ CountOf(outbox[x], "message_sent", id) <= 1

C2_Delivery == []C2_Once /\ [][C2_Step]_vars

C2_Witness ==
  \E id \in 1..Len(messages) :
    /\ CountOf(outbox["s1"], "message_sent", id) = 1
    /\ CountOf(outbox["s2"], "message_received", id) = 1
    /\ messages[id].user = "alice"

\* C3: when createMessage's membership check runs for a user without a
\* membership in the room, the handler ends there: the socket is sent
\* send_message_error, no messages row is inserted and nothing is sent to
\* any other socket.
C3_NonMember ==
  [][\A t \in tasks :
       (/\ t.kind = "send" /\ t.pc = "validate"
        /\ ~IsMember(sockUser[t.sock], t.room)
        /\ t \notin tasks')
       => /\ Ends(t)
          /\ messages' = messages
          /\ outbox' = [outbox EXCEPT ![t.sock] =
                          Append(@, [Event("send_message_error") EXCEPT
                                       !.room = t.room, !.error = "send_failed"])]
    ]_vars

C3_Witness ==
  /\ \E i \in 1..Len(outbox["s2"]) :
       /\ outbox["s2"][i].type = "send_message_error"
       /\ outbox["s2"][i].room = "team"
  /\ ~IsMember("bob", "team")
  /\ \A i \in 1..Len(messages) : messages[i].room # "team"
  /\ "team" \in socketRooms["s1"]


\* Joining rooms from an empty database: alice connects with two sessions
\* (s1, s3), creates 'team' over REST, joins rooms and types on s1; s3 may
\* disconnect
JoinSockets == {"s1", "s3"}

NextJoin ==
  \/ \E s \in JoinSockets : AuthMiddleware(s, ValidToken(s))
  \/ \E t \in tasks : ConnSetSession(t)
  \/ \E t \in tasks : ConnSetPresence(t)
  \/ \E t \in tasks : ConnGetUserRooms(t)
  \/ \E t \in tasks : ConnAddUserToRoom(t)
  \/ \E type \in {"public", "private"} : CreateRoom("alice", "team", type)
  \/ \E r \in Rooms : JoinRoom("s1", r, MaxEvents)
  \/ \E t \in tasks : JoinExisting(t)
  \/ \E t \in tasks : JoinRoomRow(t)
  \/ \E t \in tasks : JoinInsert(t)
  \/ \E t \in tasks : JoinAddUserToRoom(t)
  \/ \E t \in tasks : JoinUpdateRoom(t)
  \/ \E t \in tasks : JoinGetHistory(t)
  \/ \E t \in tasks : JoinGetParticipants(t)
  \/ StartTyping("s1", "general", MaxEvents)
  \/ ClientDisconnect("s3")
  \/ \E t \in tasks : DiscRemovePresence(t)
  \/ \E t \in tasks : DiscGetUserRooms(t)
  \/ \E t \in tasks : DiscRemoveUserFromRoom(t)
  \/ \E t \in tasks : DiscRemoveSession(t)

SpecJoin == Init /\ [][NextJoin]_vars

\* C4: when the handler of a join_room from a user who already had the
\* membership ends, the socket is sent room_joined and not join_room_error,
\* and the user has exactly one membership row of the room and is in the
\* room's participant set.
C4_Claim ==
  [][\A t \in tasks :
       (t.kind = "join" /\ t.status = "existing" /\ Ends(t)) =>
         /\ outbox'[t.sock] # outbox[t.sock]
         /\ outbox'[t.sock][Len(outbox'[t.sock])].type = "room_joined"
         /\ Cardinality({m \in memberships' :
                           m.user = sockUser[t.sock] /\ m.room = t.room}) = 1
         /\ sockUser[t.sock] \in participants'[t.room]
    ]_vars

\* Sessions that come and go while messages and typing are in flight: the
\* seeded members connect, alice types and sends in 'general', clients drop
DiscSockets == {"s1", "s2"}

NextDisc ==
  \/ \E s \in DiscSockets : AuthMiddleware(s, ValidToken(s))
  \/ \E t \in tasks : ConnSetSession(t)
  \/ \E t \in tasks : ConnSetPresence(t)
  \/ \E t \in tasks : ConnGetUserRooms(t)
  \/ \E t \in tasks : ConnAddUserToRoom(t)
  \/ StartTyping("s1", "general", MaxEvents)
  \/ SendMessage("s1", "general", OkContent, MaxEvents)
  \/ \E t \in tasks : SendValidate(t)
  \/ \E t \in tasks : SendInsert(t)
  \/ \E t \in tasks : SendUpdateRoom(t)
  \/ \E t \in tasks : SendGetPresence(t)
  \/ \E t \in tasks : SendSetPresence(t)
  \/ \E s \in DiscSockets : ClientDisconnect(s)
  \/ \E t \in tasks : DiscRemovePresence(t)
  \/ \E t \in tasks : DiscGetUserRooms(t)
  \/ \E t \in tasks : DiscRemoveUserFromRoom(t)
  \/ \E t \in tasks : DiscRemoveSession(t)

SpecDisc == InitSeeded /\ [][NextDisc]_vars

\* C5: when handleDisconnection ends for a socket that was in rooms and whose
\* user had a typing entry, the user is in the participant set of none of
\* those rooms, has no presence record and no typing entry, and the socket's
\* session key is gone.
C5_Claim ==
  [][\A t \in tasks :
       (/\ t.kind = "disconnect" /\ t.pc = "removeSession" /\ Ends(t)
        /\ t.hadRooms # {} /\ t.hadTyping) =>
         /\ \A r \in t.hadRooms : sockUser[t.sock] \notin participants'[r]
         /\ presence'[sockUser[t.sock]] = NoPresence
         /\ sessions'[t.sock] = None
         /\ \A r \in Rooms : typingUsers'[r][sockUser[t.sock]] = NoTyping
    ]_vars


\* Typing in 'general': the seeded members connect, start and stop typing
\* while the clock runs in steps of one and two seconds
TypingSockets == {"s1", "s2"}

TickTyping == \E d \in {1000, 2000} : now + d <= TypingHorizon /\ Tick(d)
TimerTyping == \E r \in Rooms : \E u \in Users : TypingTimerFires(r, u)

NextTyping ==
  \/ \E s \in TypingSockets : AuthMiddleware(s, ValidToken(s))
  \/ \E t \in tasks : ConnSetSession(t)
  \/ \E t \in tasks : ConnSetPresence(t)
  \/ \E t \in tasks : ConnGetUserRooms(t)
  \/ \E t \in tasks : ConnAddUserToRoom(t)
  \/ now + TypingTimeout <= TypingHorizon /\ StartTyping("s1", "general", MaxEvents)
  \/ StopTyping("s1", "general", MaxEvents)
  \/ TimerTyping
  \/ TickTyping

SpecTyping == InitSeeded /\ [][NextTyping]_vars

\* the event loop runs a due timer callback, and time passes
SpecTypingFair ==
  SpecTyping /\ WF_vars(TimerTyping) /\ WF_vars(TickTyping)

CountEvent(q, type, u, r) ==
  Cardinality({i \in 1..Len(q) :
                 q[i].type = type /\ q[i].user = u /\ q[i].room = r})

\* C6: a start_typing for a room in which the sender's typing entry is still
\* pending (its 3 s have not elapsed) sends no further user_typing to the
\* other sessions of the room.
C6_Claim ==
  [][\A s \in Sockets : \A r \in Rooms :
       (/\ Connected(s)
        /\ limits'[s]["start_typing"] # limits[s]["start_typing"]
        /\ typingUsers[r][sockUser[s]] # NoTyping
        /\ now < typingUsers[r][sockUser[s]].deadline
        /\ typingUsers'[r][sockUser[s]] # NoTyping
        /\ typingUsers'[r][sockUser[s]].deadline = now + TypingTimeout)
       => \A x \in Sockets \ {s} :
            CountEvent(outbox'[x], "user_typing", sockUser[s], r)
              = CountEvent(outbox[x], "user_typing", sockUser[s], r)
    ]_vars

\* C7: every start_typing sets the entry's timer to 3 s from now; an entry
\* changes without a client event only when its timer runs, which happens
\* not before 3 s after the last start, deletes the entry and sends exactly
\* one user_stopped_typing to every other session of the room and none to
\* the typist; and every entry is eventually deleted.
C7_Step ==
  \A r \in Rooms : \A u \in Users :
    LET e == typingUsers[r][u]
        e2 == typingUsers'[r][u]
        stops(ob, x) == CountEvent(ob[x], "user_stopped_typing", u, r)
    IN /\ (e2 # NoTyping /\ e2 # e) => e2.deadline = now + TypingTimeout
       /\ (sent' = sent /\ (e2 # e \/ \E x \in Sockets : stops(outbox', x) # stops(outbox, x)))
          => /\ e # NoTyping
             /\ now >= e.deadline
             /\ e2 = NoTyping
             /\ \A x \in Sockets :
                  stops(outbox', x) - stops(outbox, x) =
                    IF x # e.sock /\ r \in socketRooms[x] /\ Connected(x)
                    THEN 1 ELSE 0

NextRate ==
  \/ \E s \in {"s1", "s2"} : AuthMiddleware(s, ValidToken(s))
  \/ \E t \in tasks : ConnSetSession(t)
  \/ \E t \in tasks : ConnSetPresence(t)
  \/ \E t \in tasks : ConnGetUserRooms(t)
  \/ \E t \in tasks : ConnAddUserToRoom(t)
  \/ /\ tasks = {} /\ bound["s2"]
     /\ SendMessage("s1", "general", OkContent, MaxAttempts)
  \/ \E t \in tasks : SendValidate(t)
  \/ \E t \in tasks : SendInsert(t)
  \/ \E t \in tasks : SendUpdateRoom(t)
  \/ \E t \in tasks : SendGetPresence(t)
  \/ \E t \in tasks : SendSetPresence(t)
  \/ \E d \in {1, RateWindow} : now + d >= RateWindow /\ Tick(d)

SpecRate == InitSeeded /\ [][NextRate]_vars

CountType(q, type) == Cardinality({i \in 1..Len(q) : q[i].type = type})

\* C8: while all the send_message events of a socket lie within 60 s, the
\* ones after the 30th, and only those, are answered rate_limit_exceeded and
\* at most 30 rows exist; a rejected send_message appends that one event to
\* the sender and changes no message row, no handler in flight, no presence
\* record and nobody else's events.
C8_Window ==
  \A s \in Sockets :
    now <= RateWindow =>
      /\ CountType(outbox[s], "rate_limit_exceeded") =
           IF sent[s] > SendLimit THEN sent[s] - SendLimit ELSE 0
      /\ Cardinality({i \in 1..Len(messages) :
                        messages[i].user = sockUser[s]}) <= SendLimit

C8_Rejected ==
  \A s \in Sockets :
    CountType(outbox'[s], "rate_limit_exceeded")
      > CountType(outbox[s], "rate_limit_exceeded")
    => /\ messages' = messages
       /\ tasks' = tasks
       /\ presence' = presence
       /\ outbox' = [outbox EXCEPT ![s] =
            Append(@, [Event("rate_limit_exceeded") EXCEPT !.error = "send_message"])]

C8_RateLimit == []C8_Window /\ [][C8_Rejected]_vars

C8_Witness ==
  /\ now <= RateWindow
  /\ sent["s1"] = SendLimit + 1
  /\ Len(messages) = SendLimit
  /\ outbox["s1"][Len(outbox["s1"])].type = "rate_limit_exceeded"
  /\ CountType(outbox["s1"], "message_sent") = SendLimit
  /\ CountType(outbox["s2"], "message_received") > 0
  /\ presence["alice"] # NoPresence

\* Presence over time: the seeded members connect, alice sends and joins
\* once bob's connection is set up, and the clock runs in steps of a third of
\* the presence TTL and of the TTL
NextPresence ==
  \/ \E s \in {"s1", "s2"} : AuthMiddleware(s, ValidToken(s))
  \/ \E t \in tasks : ConnSetSession(t)
  \/ \E t \in tasks : ConnSetPresence(t)
  \/ \E t \in tasks : ConnGetUserRooms(t)
  \/ \E t \in tasks : ConnAddUserToRoom(t)
  \/ bound["s2"] /\ SendMessage("s1", "general", OkContent, MaxPresenceEvents)
  \/ \E t \in tasks : SendValidate(t)
  \/ \E t \in tasks : SendInsert(t)
  \/ \E t \in tasks : SendUpdateRoom(t)
  \/ \E t \in tasks : SendGetPresence(t)
  \/ \E t \in tasks : SendSetPresence(t)
  \/ bound["s2"] /\ JoinRoom("s1", "general", MaxPresenceEvents)
  \/ \E t \in tasks : JoinExisting(t)
  \/ \E t \in tasks : JoinGetHistory(t)
  \/ \E t \in tasks : JoinGetParticipants(t)
  \/ \E d \in {PresenceTTL \div 3, PresenceTTL} :
       now + d <= PresenceHorizon /\ Tick(d)

SpecPresence == InitSeeded /\ [][NextPresence]_vars

\* C9: a user without a presence record reads as null from getUserPresence
\* and as isOnline = false in getRoomParticipants, and a presence record
\* exists only while less than 30 s have passed since it was last written.
C9_Offline ==
  \A u \in Users :
    /\ getUserPresence(u) = NoPresence =>
         \A r \in Rooms : \A p \in getRoomParticipants(r) :
           p.userId = u => ~p.isOnline
    /\ getUserPresence(u) # NoPresence =>
         now - getUserPresence(u).lastActivity < PresenceTTL

C9_Witness ==
  /\ now >= PresenceTTL
  /\ Connected("s2") /\ bound["s2"]
  /\ getUserPresence("bob") = NoPresence
  /\ [userId |-> "bob", isOnline |-> FALSE] \in getRoomParticipants("general")
  /\ \E i \in 1..Len(outbox["s1"]) :
       /\ outbox["s1"][i].type = "room_joined"
       /\ outbox["s1"][i].online = {"alice"}

\* Handshakes with every kind of token, followed by the connection handler
\* and by disconnects
NextAuth ==
  \/ \E s \in Sockets : \E tok \in TokensOf(s) : AuthMiddleware(s, tok)
  \/ \E t \in tasks : ConnSetSession(t)
  \/ \E t \in tasks : ConnSetPresence(t)
  \/ \E t \in tasks : ConnGetUserRooms(t)
  \/ \E t \in tasks : ConnAddUserToRoom(t)
  \/ ClientDisconnect("s2")
  \/ \E t \in tasks : DiscRemovePresence(t)
  \/ \E t \in tasks : DiscGetUserRooms(t)
  \/ \E t \in tasks : DiscRemoveUserFromRoom(t)
  \/ \E t \in tasks : DiscRemoveSession(t)

SpecAuth == InitSeeded /\ [][NextAuth]_vars

\* the handshakes the middleware must refuse
BadToken(tok) == tok.kind # "valid" \/ tok.user \notin usersDb

\* C10: a connection whose handshake token is missing, invalid, expired or of
\* a user without a users row is refused with 'Authentication failed' and
\* nothing else: no connection handler runs for it, no session key, presence
\* record or participant entry is written for it, and no handler is bound.
C10_Refused ==
  \A s \in Sockets :
    (sockToken[s] # NoToken /\ BadToken(sockToken[s])) =>
      /\ sockState[s] = "refused"
      /\ outbox[s] = <<[Event("connect_error") EXCEPT
                          !.error = "Authentication failed"]>>
      /\ sockUser[s] = None
      /\ sessions[s] = None
      /\ ~bound[s]
      /\ socketRooms[s] = {}
      /\ \A t \in tasks : t.sock # s
      /\ \A u \in Users \cup {GhostUser} : presence[u].connectionId # s
      /\ presence[GhostUser] = NoPresence
      /\ \A r \in Rooms : GhostUser \notin participants[r]
      /\ limits[s] = [a \in RateActions |-> NoLimit]

C10_Witness ==
  /\ sockToken["s1"].kind = "expired" /\ sockState["s1"] = "refused"
  /\ sockToken["s3"] = [kind |-> "valid", user |-> GhostUser]
  /\ sockState["s3"] = "refused"
  /\ Connected("s2") /\ bound["s2"]

\* C11: whenever a step of handleDisconnection delivers user_left for a user
\* to some client, the user has no presence record at that moment.
C11_Claim ==
  [][\A t \in tasks :
       (/\ t.kind = "disconnect" /\ t.pc = "removeUserFromRoom"
        /\ t \notin tasks'
        /\ \E x \in Sockets :
             CountEvent(outbox'[x], "user_left", sockUser[t.sock], t.room)
               > CountEvent(outbox[x], "user_left", sockUser[t.sock], t.room))
       => getUserPresence(sockUser[t.sock]) = NoPresence
    ]_vars

\* Joining and leaving one room from an empty database: alice connects and
\* emits join_room and leave_room for 'general', without waiting for the
\* answers
NextJoinLeave ==
  \/ AuthMiddleware("s1", ValidToken("s1"))
  \/ \E t \in tasks : ConnSetSession(t)
  \/ \E t \in tasks : ConnSetPresence(t)
  \/ \E t \in tasks : ConnGetUserRooms(t)
  \/ JoinRoom("s1", "general", MaxEvents)
  \/ \E t \in tasks : JoinExisting(t)
  \/ \E t \in tasks : JoinRoomRow(t)
  \/ \E t \in tasks : JoinInsert(t)
  \/ \E t \in tasks : JoinAddUserToRoom(t)
  \/ \E t \in tasks : JoinUpdateRoom(t)
  \/ \E t \in tasks : JoinGetHistory(t)
  \/ \E t \in tasks : JoinGetParticipants(t)
  \/ LeaveRoom("s1", "general", MaxEvents)
  \/ \E t \in tasks : LeaveSelect(t)
  \/ \E t \in tasks : LeaveRemoveUserFromRoom(t)
  \/ \E t \in tasks : LeaveCommit(t)

SpecJoinLeave == Init /\ [][NextJoinLeave]_vars

\* C12: once no join_room or leave_room handler of a connected socket is in
\* flight, the user's membership row of a room, the user's entry in the
\* room's participant set and the socket's subscription to the room are all
\* three present or all three absent.
C12_Claim ==
  \A s \in Sockets : \A r \in Rooms :
    (tasks = {} /\ Connected(s) /\ bound[s]) =>
      /\ IsMember(sockUser[s], r) <=> sockUser[s] \in participants[r]
      /\ IsMember(sockUser[s], r) <=> r \in socketRooms[s]

(* --------------------- REST: join and leave a room --------------------- *)
\* POST /rooms/:roomId/join: roomService.joinRoom for the authenticated user,
\* its awaits taken together; no socket is involved
RestJoinRoom(u, r) ==
  /\ IF IsMember(u, r) \/ roomsDb[r] = NoRoomRow \/ roomsDb[r].type = "private"
     THEN UNCHANGED <<memberships, participants>>
     ELSE /\ memberships' = memberships \cup
               {[user |-> u, room |-> r, role |-> "member"]}
          /\ participants' = addUserToRoom(participants, u, r)
  /\ UNCHANGED <<now, roomsDb, messages, presence, sessions, sockState,
                 sockToken, cache, sockUser, bound, socketRooms, typingUsers, limits,
                 tasks, outbox, sent>>

\* POST /rooms/:roomId/leave: roomService.leaveRoom for the authenticated
\* user, its transaction taken together; no socket is involved
RestLeaveRoom(u, r) ==
  /\ IF ~IsMember(u, r)
     THEN UNCHANGED <<memberships, roomsDb, participants>>
     ELSE /\ LET c == IF RoleOf(u, r) = "owner"
                      THEN NewOwnerCandidates(u, r) ELSE {} IN
             IF c = {}
             THEN /\ memberships' = LeaveRows(u, r, None)
                  /\ UNCHANGED roomsDb
             ELSE \E n \in c :
                  /\ memberships' = LeaveRows(u, r, n)
                  /\ roomsDb' = [roomsDb EXCEPT ![r].owner = n]
          /\ participants' = removeUserFromRoom(participants, u, r)
  /\ UNCHANGED <<now, messages, presence, sessions, sockState, sockToken, cache,
                 sockUser, bound, socketRooms, typingUsers, limits, tasks,
                 outbox, sent>>

\* Memberships changed over REST and over the socket: alice joins and leaves
\* 'general' by either path, connects, and drops the connection
NextMembers ==
  \/ AuthMiddleware("s1", ValidToken("s1"))
  \/ \E t \in tasks : ConnSetSession(t)
  \/ \E t \in tasks : ConnSetPresence(t)
  \/ \E t \in tasks : ConnGetUserRooms(t)
  \/ \E t \in tasks : ConnAddUserToRoom(t)
  \/ RestJoinRoom("alice", "general")
  \/ RestLeaveRoom("alice", "general")
  \/ JoinRoom("s1", "general", MaxEvents)
  \/ \E t \in tasks : JoinExisting(t)
  \/ \E t \in tasks : JoinRoomRow(t)
  \/ \E t \in tasks : JoinInsert(t)
  \/ \E t \in tasks : JoinAddUserToRoom(t)
  \/ \E t \in tasks : JoinUpdateRoom(t)
  \/ \E t \in tasks : JoinGetHistory(t)
  \/ \E t \in tasks : JoinGetParticipants(t)
  \/ LeaveRoom("s1", "general", MaxEvents)
  \/ \E t \in tasks : LeaveSelect(t)
  \/ \E t \in tasks : LeaveRemoveUserFromRoom(t)
  \/ \E t \in tasks : LeaveCommit(t)
  \/ ClientDisconnect("s1")
  \/ \E t \in tasks : DiscRemovePresence(t)
  \/ \E t \in tasks : DiscGetUserRooms(t)
  \/ \E t \in tasks : DiscRemoveUserFromRoom(t)
  \/ \E t \in tasks : DiscRemoveSession(t)

SpecMembers == Init /\ [][NextMembers]_vars

\* C13: every user id in a room's participant set has a connected session
\* that is subscribed to the room.
C13_Claim ==
  \A r \in Rooms : \A u \in participants[r] :
    \E s \in Sockets : Connected(s) /\ sockUser[s] = u /\ r \in socketRooms[s]

(* ---------------- disconnect: a step of the teardown fails -------------- *)
\* the awaited call the handler is at rejects (Redis or the database is
\* unreachable): the catch of handleDisconnection logs the error and the
\* handler returns, the steps after the failed one never run
DiscFails(t) ==
  /\ t.kind = "disconnect"
  /\ tasks' = Finish(t)
  /\ UNCHANGED <<now, memberships, roomsDb, messages, presence, participants,
                 sessions, sockState, sockToken, cache, sockUser, bound, socketRooms,
                 typingUsers, limits, outbox, sent>>

\* Teardown with failures: alice and bob connect, alice may be typing, either
\* connection drops and any awaited call of the teardown may reject
NextTeardown ==
  \/ \E s \in DiscSockets : AuthMiddleware(s, ValidToken(s))
  \/ \E t \in tasks : ConnSetSession(t)
  \/ \E t \in tasks : ConnSetPresence(t)
  \/ \E t \in tasks : ConnGetUserRooms(t)
  \/ \E t \in tasks : ConnAddUserToRoom(t)
  \/ StartTyping("s1", "general", MaxEvents)
  \/ \E s \in DiscSockets : ClientDisconnect(s)
  \/ \E t \in tasks : DiscRemovePresence(t)
  \/ \E t \in tasks : DiscGetUserRooms(t)
  \/ \E t \in tasks : DiscRemoveUserFromRoom(t)
  \/ \E t \in tasks : DiscRemoveSession(t)
  \/ \E t \in tasks : DiscFails(t)

SpecTeardown == InitSeeded /\ [][NextTeardown]_vars

\* C14: when handleDisconnection ends on a failed step (it ends with the
\* session key still stored), it does not leave the user's presence removed
\* while a participant entry, a typing entry or the session key remains.
C14_Claim ==
  [][\A t \in tasks :
       (/\ t.kind = "disconnect"
        /\ ~\E t2 \in tasks' : t2.kind = "disconnect" /\ t2.sock = t.sock
        /\ sessions'[t.sock] = sessions[t.sock] /\ sessions[t.sock] # None)
       => ~(/\ t.pc # "removePresence"
            /\ presence'[sockUser[t.sock]] = NoPresence
            /\ \/ \E r \in Rooms : sockUser[t.sock] \in participants'[r]
               \/ \E r \in Rooms : typingUsers'[r][sockUser[t.sock]] # NoTyping
               \/ sessions'[t.sock] # None)
    ]_vars

(* ------------------- the four rate-limited actions ---------------------- *)
\* the client repeats one action and uses each of the others at most once,
\* one event at a time, once bob listens in 'general'
Burst(s, a) ==
  /\ tasks = {}
  /\ "general" \in socketRooms["s2"]
  /\ \A b \in RateActions \ {a} : limits[s][b].count <= 1

\* alice and bob connect, bob joins 'general', then alice joins, sends,
\* updates her presence and types there, one kind of request up to its limit
\* and past it
NextLimits ==
  \/ \E s \in {"s1", "s2"} : AuthMiddleware(s, ValidToken(s))
  \/ \E t \in tasks : ConnSetSession(t)
  \/ \E t \in tasks : ConnSetPresence(t)
  \/ \E t \in tasks : ConnGetUserRooms(t)
  \/ /\ tasks = {} /\ bound["s1"] /\ limits["s2"]["join_room"].count = 0
     /\ JoinRoom("s2", "general", MaxBurst)
  \/ Burst("s1", "join_room") /\ JoinRoom("s1", "general", MaxBurst)
  \/ \E t \in tasks : JoinExisting(t)
  \/ \E t \in tasks : JoinRoomRow(t)
  \/ \E t \in tasks : JoinInsert(t)
  \/ \E t \in tasks : JoinAddUserToRoom(t)
  \/ \E t \in tasks : JoinUpdateRoom(t)
  \/ \E t \in tasks : JoinGetHistory(t)
  \/ \E t \in tasks : JoinGetParticipants(t)
  \/ Burst("s1", "send_message") /\ SendMessage("s1", "general", OkContent, MaxBurst)
  \/ \E t \in tasks : SendValidate(t)
  \/ \E t \in tasks : SendInsert(t)
  \/ \E t \in tasks : SendUpdateRoom(t)
  \/ \E t \in tasks : SendGetPresence(t)
  \/ \E t \in tasks : SendSetPresence(t)
  \/ Burst("s1", "update_presence") /\ UpdatePresence("s1", "away", MaxBurst)
  \/ \E t \in tasks : PresenceSet(t)
  \/ \E t \in tasks : PresenceBroadcast(t)
  \/ Burst("s1", "start_typing") /\ StartTyping("s1", "general", MaxBurst)

SpecLimits == Init /\ [][NextLimits]_vars

\* C15: join_room, send_message, update_presence and start_typing pass the
\* rate limiter before anything else: each such event received moves the
\* limiter of its (socket, action) key, and when the limiter refuses it the
\* requester gets rate_limit_exceeded; a refused request appends that one
\* event to the requester and changes no membership, participant set,
\* subscription, presence record, typing entry, message or handler in flight.
C15_First ==
  \A s \in Sockets :
    sent'[s] > sent[s] =>
      \E a \in RateActions :
        /\ limits' = [limits EXCEPT ![s][a] = rateLimiter(limits[s][a], a).w]
        /\ ~rateLimiter(limits[s][a], a).ok =>
             outbox'[s] = Append(outbox[s], RateLimitExceeded(a))

C15_Rejected ==
  \A s \in Sockets :
    CountType(outbox'[s], "rate_limit_exceeded")
      > CountType(outbox[s], "rate_limit_exceeded")
    => /\ UNCHANGED <<memberships, roomsDb, participants, socketRooms, presence,
                      typingUsers, messages, tasks>>
       /\ \E a \in RateActions :
            /\ ~rateLimiter(limits[s][a], a).ok
            /\ outbox' = [outbox EXCEPT ![s] = Append(@, RateLimitExceeded(a))]

SendStoreFails(t) ==
  /\ t.kind = "send" /\ t.pc \in {"validate", "insert", "updateRoom"}
  /\ tasks' = Finish(t)
  /\ outbox' = Emit(outbox, t.sock, SendError(t.room, "send_failed"))
  /\ UNCHANGED <<now, memberships, roomsDb, messages, presence, participants,
                 sessions, sockState, sockToken, cache, sockUser, bound, socketRooms,
                 typingUsers, limits, sent>>

\* Messaging with an unreliable store: the seeded members connect and alice
\* sends to 'general' while any query of createMessage may reject
NextStore ==
  \/ \E s \in ChatSockets : AuthMiddleware(s, ValidToken(s))
  \/ \E t \in tasks : ConnSetSession(t)
  \/ \E t \in tasks : ConnSetPresence(t)
  \/ \E t \in tasks : ConnGetUserRooms(t)
  \/ \E t \in tasks : ConnAddUserToRoom(t)
  \/ SendMessage("s1", "general", OkContent, MaxEvents)
  \/ \E t \in tasks : SendValidate(t)
  \/ \E t \in tasks : SendInsert(t)
  \/ \E t \in tasks : SendUpdateRoom(t)
  \/ \E t \in tasks : SendGetPresence(t)
  \/ \E t \in tasks : SendSetPresence(t)
  \/ \E t \in tasks : SendStoreFails(t)

SpecStore == InitSeeded /\ [][NextStore]_vars

\* C16: when createMessage fails on the store for a valid message of a room
\* member, every other session subscribed to the room still gets the message
\* as message_received, and the event the sender gets is not
\* send_message_error.
C16_Claim ==
  [][\A t \in tasks :
       (/\ t.kind = "send" /\ t.pc \in {"validate", "insert", "updateRoom"}
        /\ Ends(t)
        /\ validateUserInRoom(sockUser[t.sock], t.room)
        /\ ContentLengthOk(t.content))
       => /\ \A x \in Sockets \ {t.sock} :
               (Connected(x) /\ t.room \in socketRooms[x]) =>
                 \E i \in 1..Len(outbox'[x]) :
                   /\ outbox'[x][i].type = "message_received"
                   /\ outbox'[x][i].room = t.room
                   /\ outbox'[x][i].user = sockUser[t.sock]
                   /\ outbox'[x][i].seq = t.seq
          /\ Connected(t.sock) =>
               /\ Len(outbox'[t.sock]) = Len(outbox[t.sock]) + 1
               /\ outbox'[t.sock][Len(outbox'[t.sock])].type # "send_message_error"
    ]_vars

(* --------------- connection: a step of the set-up fails ----------------- *)
\* the awaited call handleUserConnection is at rejects: the catch of the
\* connection handler emits connect_error 'connection_setup_failed' and calls
\* socket.disconnect(true); the event handlers, 'disconnect' included, were
\* never registered, and what the set-up wrote so far stays
ConnFails(t) ==
  /\ t.kind = "connect"
  /\ outbox' = Emit(outbox, t.sock,
                    [Event("connect_error") EXCEPT !.error = "connection_setup_failed"])
  /\ sockState' = [sockState EXCEPT ![t.sock] = "closed"]
  /\ socketRooms' = [socketRooms EXCEPT ![t.sock] = {}]
  /\ tasks' = Finish(t)
  /\ UNCHANGED <<now, memberships, roomsDb, messages, presence, participants,
                 sessions, sockToken, cache, sockUser, bound, typingUsers, limits,
                 sent>>

\* Connecting with unreliable stores: the seeded members connect, any awaited
\* call of the set-up may reject, and established connections may drop
NextConnect ==
  \/ \E s \in ChatSockets : AuthMiddleware(s, ValidToken(s))
  \/ \E t \in tasks : ConnSetSession(t)
  \/ \E t \in tasks : ConnSetPresence(t)
  \/ \E t \in tasks : ConnGetUserRooms(t)
  \/ \E t \in tasks : ConnAddUserToRoom(t)
  \/ \E t \in tasks : ConnFails(t)
  \/ ClientDisconnect("s2")
  \/ \E t \in tasks : DiscRemovePresence(t)
  \/ \E t \in tasks : DiscGetUserRooms(t)
  \/ \E t \in tasks : DiscRemoveUserFromRoom(t)
  \/ \E t \in tasks : DiscRemoveSession(t)

SpecConnect == InitSeeded /\ [][NextConnect]_vars

\* C17: when getUserRooms fails during handleUserConnection, the handler ends
\* with the session still connected, subscribed to no room, and told so by an
\* event that is not a connection error.
C17_Claim ==
  [][\A t \in tasks :
       (/\ t.kind = "connect" /\ t.pc = "getUserRooms"
        /\ getUserRooms(sockUser[t.sock]) # {}
        /\ Connected(t.sock)
        /\ ~\E t2 \in tasks' : t2.kind = "connect" /\ t2.sock = t.sock)
       => /\ sockState'[t.sock] = "connected"
          /\ socketRooms'[t.sock] = {}
          /\ Len(outbox'[t.sock]) = Len(outbox[t.sock]) + 1
          /\ outbox'[t.sock][Len(outbox'[t.sock])].type # "connect_error"
    ]_vars

\* C18: the step of handleDisconnection that removes the typing entries of
\* the user broadcasts user_stopped_typing for each room that had an entry to
\* the other sessions subscribed to that room.
C18_Claim ==
  [][\A t \in tasks : \A r \in Rooms :
       (/\ t.kind = "disconnect" /\ t \notin tasks'
        /\ typingUsers[r][sockUser[t.sock]] # NoTyping
        /\ typingUsers'[r][sockUser[t.sock]] = NoTyping)
       => \A x \in Sockets \ {t.sock} :
            (Connected(x) /\ r \in socketRooms[x]) =>
              CountEvent(outbox'[x], "user_stopped_typing", sockUser[t.sock], r)
                = CountEvent(outbox[x], "user_stopped_typing", sockUser[t.sock], r) + 1
    ]_vars

\* C19: a stop_typing for a room where the sender has a typing entry deletes
\* the entry (and with it its timer) and sends exactly one
\* user_stopped_typing to each other session of the room and none to the
\* sender; a stop_typing without an entry changes no typing entry and emits
\* nothing; and no user_stopped_typing is ever sent, by a stop or by a timer,
\* for a user who has no entry in the room.
C19_Stop ==
  \A s \in Sockets :
    (sent'[s] = sent[s] + 1 /\ limits' = limits) =>
      IF typingUsers["general"][sockUser[s]] # NoTyping
      THEN /\ typingUsers' =
                [typingUsers EXCEPT !["general"][sockUser[s]] = NoTyping]
           /\ outbox'[s] = outbox[s]
           /\ \A x \in Sockets \ {s} :
                outbox'[x] =
                  IF Connected(x) /\ "general" \in socketRooms[x]
                  THEN Append(outbox[x], UserStoppedTyping(sockUser[s], "general"))
                  ELSE outbox[x]
      ELSE /\ typingUsers' = typingUsers
           /\ outbox' = outbox

C19_NoEntry ==
  \A x \in Sockets : \A u \in Users : \A r \in Rooms :
    CountEvent(outbox'[x], "user_stopped_typing", u, r)
      > CountEvent(outbox[x], "user_stopped_typing", u, r)
    => /\ typingUsers[r][u] # NoTyping
       /\ typingUsers'[r][u] = NoTyping

C19_Idempotent == [][C19_Stop /\ C19_NoEntry]_vars

C19_Witness ==
  /\ sent["s1"] = 3
  /\ limits["s1"]["start_typing"].count = 1
  /\ typingUsers["general"]["alice"] = NoTyping
  /\ CountEvent(outbox["s2"], "user_typing", "alice", "general") = 1
  /\ CountEvent(outbox["s2"], "user_stopped_typing", "alice", "general") = 1

\* Presence statuses: the seeded members connect, alice, once bob listens,
\* sets her status to a valid or an invalid value, her connection may drop,
\* and the presence TTL may run out
NextStatus ==
  \/ \E s \in ChatSockets : AuthMiddleware(s, ValidToken(s))
  \/ \E t \in tasks : ConnSetSession(t)
  \/ \E t \in tasks : ConnSetPresence(t)
  \/ \E t \in tasks : ConnGetUserRooms(t)
  \/ \E t \in tasks : ConnAddUserToRoom(t)
  \/ /\ bound["s2"]
     /\ \E st \in {"away", "offline", "busy"} : UpdatePresence("s1", st, MaxPresenceEvents)
  \/ \E t \in tasks : PresenceSet(t)
  \/ \E t \in tasks : PresenceBroadcast(t)
  \/ ClientDisconnect("s1")
  \/ \E t \in tasks : DiscRemovePresence(t)
  \/ \E t \in tasks : DiscGetUserRooms(t)
  \/ \E t \in tasks : DiscRemoveUserFromRoom(t)
  \/ \E t \in tasks : DiscRemoveSession(t)
  \/ now + PresenceTTL <= PresenceHorizon /\ Tick(PresenceTTL)

SpecStatus == InitSeeded /\ [][NextStatus]_vars

\* C20: no presence record with status 'offline' is ever stored: a user who
\* goes offline has no record.
C20_Claim == \A u \in Users : presence[u].status # "offline"

\* C21: when handleSendMessage acknowledges an accepted send_message of a
\* connected user with message_sent, the user has a presence record with
\* status online that expires 30 s from that moment, whether or not a record
\* existed before.
C21_Claim ==
  [][\A t \in tasks :
       (/\ t.kind = "send" /\ Ends(t) /\ Connected(t.sock)
        /\ CountType(outbox'[t.sock], "message_sent")
             > CountType(outbox[t.sock], "message_sent"))
       => /\ presence'[sockUser[t.sock]].status = "online"
          /\ presence'[sockUser[t.sock]].expireAt = now + PresenceTTL
    ]_vars

(* -------------------- events sent without a payload -------------------- *)
ClientEvents == RateActions \cup {"leave_room", "stop_typing"}

\* process.on('unhandledRejection') calls process.exit(1): every transport
\* closes, the handlers in flight and the in-memory typing entries are gone;
\* Redis and the database keep what they hold
ProcessExit ==
  /\ sockState' = [x \in Sockets |-> "closed"]
  /\ socketRooms' = [x \in Sockets |-> {}]
  /\ tasks' = {}
  /\ typingUsers' = [r \in Rooms |-> [u \in Users |-> NoTyping]]

\* the client emits ev with no payload (data is undefined). Past the rate
\* limit, `const { roomId } = data` throws inside the try. The catch of
\* handleJoinRoom, handleLeaveRoom and handleSendMessage reads data.roomId,
\* which throws again: the async handler rejects, nothing handles the
\* rejection, and the process exits. The catch of handleUpdatePresence emits
\* update_presence_error 'update_failed'; the typing handlers only log.
NoPayload(s, ev, cap) ==
  /\ Receives(s, cap)
  /\ sent' = [sent EXCEPT ![s] = @ + 1]
  /\ limits' = IF ev \in RateActions THEN LimitsAfter(s, ev) ELSE limits
  /\ IF ev \in RateActions /\ ~checkRateLimit(s, ev)
     THEN /\ outbox' = Emit(outbox, s, RateLimitExceeded(ev))
          /\ UNCHANGED <<sockState, socketRooms, tasks, typingUsers>>
     ELSE IF ev \in {"join_room", "leave_room", "send_message"}
     THEN /\ ProcessExit
          /\ UNCHANGED outbox
     ELSE IF ev = "update_presence"
     THEN /\ outbox' = Emit(outbox, s, PresenceError("update_failed"))
          /\ UNCHANGED <<sockState, socketRooms, tasks, typingUsers>>
     ELSE UNCHANGED <<outbox, sockState, socketRooms, tasks, typingUsers>>
  /\ UNCHANGED <<now, memberships, roomsDb, messages, presence, participants,
                 sessions, sockToken, cache, sockUser, bound>>

\* Malformed and invalid events: alice and bob connect to a server whose only
\* room is the public 'general', with no memberships; alice sends events
\* without payload, without roomId, for the unknown room 'team', as a
\* non-member, and with an invalid presence status, among valid ones
NextMalformed ==
  \/ \E s \in ChatSockets : AuthMiddleware(s, ValidToken(s))
  \/ \E t \in tasks : ConnSetSession(t)
  \/ \E t \in tasks : ConnSetPresence(t)
  \/ \E t \in tasks : ConnGetUserRooms(t)
  \/ \E ev \in ClientEvents : NoPayload("s1", ev, MaxEvents)
  \/ \E r \in Rooms \cup {None} : JoinRoom("s1", r, MaxEvents)
  \/ \E t \in tasks : JoinExisting(t)
  \/ \E t \in tasks : JoinRoomRow(t)
  \/ \E t \in tasks : JoinInsert(t)
  \/ \E t \in tasks : JoinAddUserToRoom(t)
  \/ \E t \in tasks : JoinUpdateRoom(t)
  \/ \E t \in tasks : JoinGetHistory(t)
  \/ \E t \in tasks : JoinGetParticipants(t)
  \/ SendMessage("s1", "general", OkContent, MaxEvents)
  \/ \E t \in tasks : SendValidate(t)
  \/ \E t \in tasks : SendInsert(t)
  \/ \E t \in tasks : SendUpdateRoom(t)
  \/ \E t \in tasks : SendGetPresence(t)
  \/ \E t \in tasks : SendSetPresence(t)
  \/ UpdatePresence("s1", "busy", MaxEvents)

SpecMalformed == Init /\ [][NextMalformed]_vars

\* C22: with no client closing its connection and no transport error, no
\* step disconnects a connected session: whatever event a client sends,
\* malformed or invalid, every session that was connected stays connected.
C22_Claim ==
  [][\A s \in Sockets : Connected(s) => sockState'[s] = "connected"]_vars

\* A burst across the edge of a rate-limit window: alice connects and sends
\* one join_room at time 0, which opens the window; all her later join_room
\* events arrive at 60000 ms and at 60001 ms, one at a time
NextWindow ==
  \/ AuthMiddleware("s1", ValidToken("s1"))
  \/ \E t \in tasks : ConnSetSession(t)
  \/ \E t \in tasks : ConnSetPresence(t)
  \/ \E t \in tasks : ConnGetUserRooms(t)
  \/ \E t \in tasks : ConnAddUserToRoom(t)
  \/ /\ tasks = {}
     /\ now = 0 => limits["s1"]["join_room"].count = 0
     /\ JoinRoom("s1", "general", MaxAttempts)
  \/ \E t \in tasks : JoinExisting(t)
  \/ \E t \in tasks : JoinGetHistory(t)
  \/ \E t \in tasks : JoinGetParticipants(t)
  \/ \E d \in {1, RateWindow} : tasks = {} /\ now + d >= RateWindow /\ Tick(d)

SpecWindow == InitSeeded /\ [][NextWindow]_vars

\* C23: the join_room events the limiter of a connection accepts within any
\* 60 s number at most 10. Under SpecWindow every join_room but the first is
\* received between 60000 ms and 60001 ms, so at most 10 join_room events
\* besides the first are accepted.
C23_Claim ==
  sent["s1"] - CountType(outbox["s1"], "rate_limit_exceeded") <= JoinLimit + 1

\* contents a client may send: empty, blank, of 2000 characters followed by
\* a blank, and of 2001 characters
SendContents ==
  {[pad |-> 0, len |-> 0], [pad |-> 1, len |-> 0],
   [pad |-> 1, len |-> MaxTextLen], [pad |-> 0, len |-> MaxTextLen + 1]}

\* Messages of every size: the seeded members connect and, once bob listens,
\* alice sends to 'general'
NextContent ==
  \/ \E s \in ChatSockets : AuthMiddleware(s, ValidToken(s))
  \/ \E t \in tasks : ConnSetSession(t)
  \/ \E t \in tasks : ConnSetPresence(t)
  \/ \E t \in tasks : ConnGetUserRooms(t)
  \/ \E t \in tasks : ConnAddUserToRoom(t)
  \/ /\ bound["s2"]
     /\ \E c \in SendContents : SendMessage("s1", "general", c, MaxEvents)
  \/ \E t \in tasks : SendValidate(t)
  \/ \E t \in tasks : SendInsert(t)
  \/ \E t \in tasks : SendUpdateRoom(t)
  \/ \E t \in tasks : SendGetPresence(t)
  \/ \E t \in tasks : SendSetPresence(t)

SpecContent == InitSeeded /\ [][NextContent]_vars

\* C24: a send_message whose content (as stored, that is trimmed) is empty or
\* longer than 2000 characters is answered with send_message_error and with
\* nothing else, keeps the session connected, adds no message row and reaches
\* no other session; a send_message that does not get as far as
\* createMessage is answered with send_message_error too; and no row and no
\* message_received ever carries a content outside 1..2000 characters.
C24_Fits(c) == c.pad + c.len >= 1 /\ c.pad + c.len <= MaxTextLen

C24_Stored ==
  /\ \A i \in 1..Len(messages) : C24_Fits(messages[i].content)
  /\ \A s \in Sockets : \A i \in 1..Len(outbox[s]) :
       outbox[s][i].type = "message_received" => C24_Fits(outbox[s][i].content)

C24_Received ==
  \A s \in Sockets :
    (sent'[s] = sent[s] + 1 /\ tasks' = tasks) =>
      /\ outbox' = [outbox EXCEPT ![s] =
                      Append(@, SendError(None, "missing_required_fields"))]
      /\ messages' = messages
      /\ sockState' = sockState

C24_Refused ==
  \A t \in tasks :
    (/\ t.kind = "send" /\ t.pc = "insert" /\ ~C24_Fits(t.content)
     /\ t \notin tasks') =>
      /\ Ends(t)
      /\ outbox' = [outbox EXCEPT ![t.sock] =
                      Append(@, SendError(t.room, "send_failed"))]
      /\ messages' = messages
      /\ sockState' = sockState

C25_Claim ==
  [][\A t \in tasks :
       (/\ t.kind = "join" /\ t.pc = "existing" /\ t \notin tasks'
        /\ IsMember(sockUser[t.sock], t.room)
        /\ Connected(t.sock))
       => /\ ~\E t2 \in tasks' : t2.kind = "join" /\ t2.sock = t.sock
          /\ outbox'[t.sock] = Append(outbox[t.sock],
               JoinError(t.room, "User is already a member of this room"))
          /\ memberships' = memberships
    ]_vars

\* C26: a stop_typing{roomId} of a sender who has no typing entry in the room
\* still sends user_stopped_typing, with the sender's user id and the room,
\* to every other session subscribed to the room.
C26_Claim ==
  [][\A s \in Sockets :
       (/\ sent'[s] = sent[s] + 1 /\ limits' = limits
        /\ typingUsers["general"][sockUser[s]] = NoTyping)
       => \A x \in Sockets \ {s} :
            (Connected(x) /\ "general" \in socketRooms[x]) =>
              outbox'[x] = Append(outbox[x], UserStoppedTyping(sockUser[s], "general"))
    ]_vars

\* C27: an update_presence whose status is not online, away or offline is
\* answered with update_presence_error 'invalid_status' and with nothing
\* else, and leaves every presence record as it was; no handler ever works on
\* such a status, no record stores it, and no presence_updated or
\* presence_changed carries it.
C27_Valid == {"online", "away", "offline"}

C27_Never ==
  /\ \A t \in tasks : t.kind = "presence" => t.status \in C27_Valid
  /\ \A u \in Users : presence[u] # NoPresence => presence[u].status \in C27_Valid
  /\ \A s \in Sockets : \A i \in 1..Len(outbox[s]) :
       outbox[s][i].type \in {"presence_updated", "presence_changed"}
         => outbox[s][i].error \in C27_Valid

C27_Refused ==
  \A s \in Sockets :
    (/\ sent'[s] = sent[s] + 1 /\ tasks' = tasks
     /\ rateLimiter(limits[s]["update_presence"], "update_presence").ok)
    => /\ outbox' = [outbox EXCEPT ![s] = Append(@, PresenceError("invalid_status"))]
       /\ presence' = presence

C27_Invalid == []C27_Never /\ [][C27_Refused]_vars

C27_Witness ==
  /\ sent["s1"] = 2 /\ tasks = {}
  /\ outbox["s1"][Len(outbox["s1"])] = PresenceError("invalid_status")
  /\ presence["alice"].status = "away"
  /\ CountType(outbox["s1"], "presence_updated") = 1
  /\ CountType(outbox["s2"], "presence_changed") = 1

\* C28: when leaveRoom is called through leave_room for a user who has no
\* membership of the room, the handler ends in that step, the sender is
\* answered leave_room_error with 'User is not a member of this room', and
\* no membership row, room owner, participant set or subscription changes;
\* and a leave handler only ever gets past the SELECT for a member.
C28_NotMember ==
  \A t \in tasks :
    (/\ t.kind = "leave" /\ t.pc = "select" /\ t \notin tasks'
     /\ ~\E m \in memberships : m.user = sockUser[t.sock] /\ m.room = t.room)
    => /\ tasks' = tasks \ {t}
       /\ outbox' = Emit(outbox, t.sock,
                         LeaveError(t.room, "User is not a member of this room"))
       /\ UNCHANGED <<memberships, roomsDb, participants, socketRooms>>

C28_Claim == [][C28_NotMember]_vars

C28_Witness ==
  /\ tasks = {} /\ sent["s1"] = 3 /\ Connected("s1")
  /\ ~\E m \in memberships : m.user = "alice" /\ m.room = "general"
  /\ \E i \in 1..Len(outbox["s1"]) : \E j \in 1..Len(outbox["s1"]) :
       /\ i < j
       /\ outbox["s1"][i] = RoomLeft("general")
       /\ outbox["s1"][j] = LeaveError("general", "User is not a member of this room")

\* A private room: bob connects to a server with the public 'general' and no
\* memberships, alice creates the private room 'team' over REST, and bob
\* joins rooms over REST and over the socket
NextPrivate ==
  \/ AuthMiddleware("s2", ValidToken("s2"))
  \/ \E t \in tasks : ConnSetSession(t)
  \/ \E t \in tasks : ConnSetPresence(t)
  \/ \E t \in tasks : ConnGetUserRooms(t)
  \/ \E t \in tasks : ConnAddUserToRoom(t)
  \/ CreateRoom("alice", "team", "private")
  \/ \E r \in Rooms : RestJoinRoom("bob", r)
  \/ \E r \in Rooms : JoinRoom("s2", r, MaxEvents)
  \/ \E t \in tasks : JoinExisting(t)
  \/ \E t \in tasks : JoinRoomRow(t)
  \/ \E t \in tasks : JoinInsert(t)
  \/ \E t \in tasks : JoinAddUserToRoom(t)
  \/ \E t \in tasks : JoinUpdateRoom(t)
  \/ \E t \in tasks : JoinGetHistory(t)
  \/ \E t \in tasks : JoinGetParticipants(t)

SpecPrivate == Init /\ [][NextPrivate]_vars

\* C29: bob, who is never invited, never has a membership row of the private
\* room, is never in its participant set, and no socket of his is ever
\* subscribed to it; and a join_room that reaches the room row of a private
\* room ends there, answered join_room_error with 'Cannot join private room
\* without invitation', without touching memberships, participant sets or
\* subscriptions.
C29_Never ==
  \A r \in Rooms :
    roomsDb[r].type = "private" =>
      /\ ~\E m \in memberships : m.user = "bob" /\ m.room = r
      /\ "bob" \notin participants[r]
      /\ \A s \in Sockets : sockUser[s] = "bob" => r \notin socketRooms[s]

C29_Refused ==
  \A t \in tasks :
    (/\ t.kind = "join" /\ t.pc = "roomRow" /\ t \notin tasks'
     /\ roomsDb[t.room].type = "private")
    => /\ tasks' = tasks \ {t}
       /\ outbox' = Emit(outbox, t.sock,
            JoinError(t.room, "Cannot join private room without invitation"))
       /\ UNCHANGED <<memberships, participants, socketRooms>>

C29_Private == []C29_Never /\ [][C29_Refused]_vars

C29_Witness ==
  /\ tasks = {} /\ Connected("s2")
  /\ roomsDb["team"].type = "private"
  /\ \E i \in 1..Len(outbox["s2"]) :
       outbox["s2"][i] =
         JoinError("team", "Cannot join private room without invitation")
  /\ \E m \in memberships : m.user = "bob" /\ m.room = "general"
  /\ "general" \in socketRooms["s2"]

(* ------------------- REST: update a room membership -------------------- *)
MemberRoles == {"owner", "admin", "member"}

\* PUT /rooms/:roomId/members/:memberId: roomService.updateMembership, its
\* two queries taken together. The requester must be owner or admin of the
\* room; the target's row then takes the requested role
UpdateMembership(req, target, r, role) ==
  /\ IF /\ \E m \in memberships : m.user = req /\ m.room = r
        /\ RoleOf(req, r) \in {"owner", "admin"}
     THEN memberships' =
            {IF m.user = target /\ m.room = r THEN [m EXCEPT !.role = role] ELSE m
               : m \in memberships}
     ELSE UNCHANGED memberships
  /\ UNCHANGED <<now, roomsDb, messages, presence, participants, sessions,
                 sockState, sockToken, cache, sockUser, bound, socketRooms,
                 typingUsers, limits, tasks, outbox, sent>>

\* Rooms and roles over REST: alice and bob create the room 'team', join and
\* leave rooms, and change each other's and their own roles
NextOwner ==
  \/ \E u \in Users : \E type \in {"public", "private"} : CreateRoom(u, "team", type)
  \/ \E u \in Users : \E r \in Rooms : RestJoinRoom(u, r)
  \/ \E u \in Users : \E r \in Rooms : RestLeaveRoom(u, r)
  \/ \E req \in Users : \E target \in Users : \E role \in MemberRoles :
       UpdateMembership(req, target, "team", role)

SpecOwner == Init /\ [][NextOwner]_vars

\* C30: each room has at most one membership with role owner, and when it has
\* one, chat_rooms.owner_id is that member.
C30_Claim ==
  \A r \in Rooms :
    LET owners == {m \in memberships : m.room = r /\ m.role = "owner"} IN
      /\ Cardinality(owners) <= 1
      /\ \A m \in owners : roomsDb[r].owner = m.user

(* ------------- rate limiting: one window per socket and action ---------- *)
\* alice's first session (s1) joins 'general' up to the limit and past it,
\* then types there up to the limit and past it, one event at a time; a
\* second session of hers (s3) connects at any moment and uses each of the
\* two actions once
NextKeys ==
  \/ \E s \in {"s1", "s3"} : tasks = {} /\ AuthMiddleware(s, ValidToken(s))
  \/ \E t \in tasks : ConnSetSession(t)
  \/ \E t \in tasks : ConnSetPresence(t)
  \/ \E t \in tasks : ConnGetUserRooms(t)
  \/ \E t \in tasks : ConnAddUserToRoom(t)
  \/ /\ tasks = {} /\ CountType(outbox["s1"], "rate_limit_exceeded") = 0
     /\ JoinRoom("s1", "general", MaxBurst)
  \/ /\ tasks = {} /\ limits["s3"]["join_room"].count = 0
     /\ JoinRoom("s3", "general", MaxBurst)
  \/ \E t \in tasks : JoinExisting(t)
  \/ \E t \in tasks : JoinGetHistory(t)
  \/ \E t \in tasks : JoinGetParticipants(t)
  \/ /\ tasks = {} /\ CountType(outbox["s1"], "rate_limit_exceeded") = 1
     /\ StartTyping("s1", "general", MaxBurst)
  \/ /\ tasks = {} /\ limits["s3"]["start_typing"].count = 0
     /\ StartTyping("s3", "general", MaxBurst)

SpecKeys == InitSeeded /\ [][NextKeys]_vars

\* C31: the rate-limit windows are independent per connection and per
\* action.  A step changes at most one window, the one of the (socket,
\* action) pair whose event was received; rate_limit_exceeded for an action
\* is sent to a socket only when that socket's own window for that action is
\* full and still open, and a request is let through whenever its own window
\* is not, whatever the other windows hold; a connection that has just been
\* accepted, also a further one of the same user, has no window at all.
C31_Frame ==
  \A s \in Sockets : \A a \in RateActions :
    limits'[s][a] # limits[s][a] =>
      /\ sent'[s] = sent[s] + 1
      /\ limits[s][a].count < ActionLimit(a) \/ now > limits[s][a].resetTime
      /\ CountType(outbox'[s], "rate_limit_exceeded")
           = CountType(outbox[s], "rate_limit_exceeded")
      /\ \A x \in Sockets : \A b \in RateActions :
           <<x, b>> # <<s, a>> => limits'[x][b] = limits[x][b]

C31_Own ==
  \A s \in Sockets : \A a \in RateActions :
    outbox'[s] = Append(outbox[s], RateLimitExceeded(a)) =>
      /\ limits[s][a].count >= ActionLimit(a)
      /\ now <= limits[s][a].resetTime
      /\ limits' = limits

C31_Fresh ==
  \A s \in Sockets :
    sockState[s] = "new" /\ sockState'[s] = "connected" =>
      \A a \in RateActions : limits'[s][a] = NoLimit

C31_Independent == [][C31_Frame /\ C31_Own /\ C31_Fresh]_vars

C31_Witness ==
  /\ limits["s1"]["start_typing"].count = TypingLimit
  /\ limits["s1"]["join_room"].count = JoinLimit
  /\ CountType(outbox["s1"], "rate_limit_exceeded") = 2
  /\ limits["s3"]["start_typing"].count = 1
  /\ limits["s3"]["join_room"].count = 1
  /\ CountType(outbox["s3"], "rate_limit_exceeded") = 0

(* ---------------- typing indicators: a room of other people ------------- *)
\* The seeded members connect (alice is in 'general' and in her private room
\* 'team', bob in 'general' only); bob starts and stops typing in 'team'
\* while the clock runs and the typing timers fire
NextOutsider ==
  \/ \E s \in TypingSockets : AuthMiddleware(s, ValidToken(s))
  \/ \E t \in tasks : ConnSetSession(t)
  \/ \E t \in tasks : ConnSetPresence(t)
  \/ \E t \in tasks : ConnGetUserRooms(t)
  \/ \E t \in tasks : ConnAddUserToRoom(t)
  \/ now + TypingTimeout <= TypingHorizon /\ StartTyping("s2", "team", MaxEvents)
  \/ StopTyping("s2", "team", MaxEvents)
  \/ TimerTyping
  \/ TickTyping

SpecOutsider == InitSeeded /\ [][NextOutsider]_vars

\* C32: typing in a room the sender is not a member of is ignored: every
\* typing entry belongs to a member of its room, and every user_typing and
\* user_stopped_typing event a client has received names a member of the
\* room it is about.
C32_Claim ==
  /\ \A r \in Rooms : \A u \in Users :
       typingUsers[r][u] # NoTyping => IsMember(u, r)
  /\ \A s \in Sockets : \A i \in 1..Len(outbox[s]) :
       outbox[s][i].type \in {"user_typing", "user_stopped_typing"}
         => IsMember(outbox[s][i].user, outbox[s][i].room)

(* ------------- REST: GET /rooms/:roomId/messages (history) -------------- *)
\* the HTTP response with the value getMessageHistory returned, as the client
\* reads it: messageHistory.messages is undefined on a bare array
MessageHistory(t, h) ==
  [Event("message_history") EXCEPT !.room = t.room, !.seq = t.limit,
     !.recent = IF h.shape = "history"
                THEN [defined |-> TRUE, items |-> h.items] ELSE NoCache]

\* the client of session s requests the history of room r; the route runs up
\* to the first await of getMessageHistory (the membership query).  id is the
\* newest message row when the request arrives; no action reads it
LoadMessages(s, r, limit) ==
  /\ Connected(s) /\ bound[s]
  /\ Cardinality(tasks) < MaxTasks
  /\ ~\E t \in tasks : t.kind = "history" /\ t.sock = s
  /\ CountType(outbox[s], "message_history") < MaxLoads
  /\ tasks' = tasks \cup {[Task("history", s, "validate") EXCEPT
                             !.room = r, !.limit = limit, !.id = Len(messages)]}
  /\ UNCHANGED <<now, memberships, roomsDb, messages, presence, participants,
                 sessions, sockState, sockToken, cache, sockUser, bound,
                 socketRooms, typingUsers, limits, outbox, sent>>

\* getMessageHistory: await validateUserInRoom; a non-member gets status 500
HistValidate(t) ==
  /\ t.kind = "history" /\ t.pc = "validate"
  /\ IF validateUserInRoom(sockUser[t.sock], t.room)
     THEN /\ tasks' = Replace(t, [t EXCEPT !.pc = "cached"])
          /\ UNCHANGED outbox
     ELSE /\ tasks' = Finish(t)
          /\ outbox' = [outbox EXCEPT ![t.sock] = Append(@,
               [Event("message_history") EXCEPT !.room = t.room,
                  !.seq = t.limit, !.error = "fetch_failed"])]
  /\ UNCHANGED <<now, memberships, roomsDb, messages, presence, participants,
                 sessions, sockState, sockToken, cache, sockUser, bound,
                 socketRooms, typingUsers, limits, sent>>

\* getMessageHistory: await getCachedMessageHistory; a hit is returned as it
\* is and the route answers with it
HistCached(t) ==
  /\ t.kind = "history" /\ t.pc = "cached"
  /\ IF cache[t.room].defined
     THEN /\ tasks' = Finish(t)
          /\ outbox' = [outbox EXCEPT ![t.sock] = Append(@,
               MessageHistory(t, getMessageHistory(t.room, t.limit)))]
     ELSE /\ tasks' = Replace(t, [t EXCEPT !.pc = "query"])
          /\ UNCHANGED outbox
  /\ UNCHANGED <<now, memberships, roomsDb, messages, presence, participants,
                 sessions, sockState, sockToken, cache, sockUser, bound,
                 socketRooms, typingUsers, limits, sent>>

\* getMessageHistory: await the SELECT; the MessageHistory is built from it
HistQuery(t) ==
  /\ t.kind = "history" /\ t.pc = "query"
  /\ tasks' = Replace(t, [t EXCEPT !.pc = "store",
                                   !.reply = HistoryQuery(t.room, t.limit)])
  /\ UNCHANGED <<now, memberships, roomsDb, messages, presence, participants,
                 sessions, sockState, sockToken, cache, sockUser, bound,
                 socketRooms, typingUsers, limits, outbox, sent>>

\* getMessageHistory: await cacheMessageHistory (SETEX, whatever the key
\* holds by now); the MessageHistory is returned and the route answers
HistStore(t) ==
  /\ t.kind = "history" /\ t.pc = "store"
  /\ cache' = [cache EXCEPT ![t.room] =
                 [defined |-> TRUE, items |-> t.reply.items]]
  /\ tasks' = Finish(t)
  /\ outbox' = [outbox EXCEPT ![t.sock] = Append(@, MessageHistory(t, t.reply))]
  /\ UNCHANGED <<now, memberships, roomsDb, messages, presence, participants,
                 sessions, sockState, sockToken, sockUser, bound, socketRooms,
                 typingUsers, limits, sent>>

(* ---------------------- client: ChatProvider state ---------------------- *)
\* chatReducer on state.messages, an array of message ids (or undefined) per
\* room: SET_MESSAGES replaces the room's array by the payload's, ADD_MESSAGE
\* appends the payload to the room's array or to [] when there is none
chatReducer(st, a) ==
  CASE a.type = "SET_MESSAGES" -> [st EXCEPT ![a.room] = a.recent]
    [] a.type = "ADD_MESSAGE" ->
         [st EXCEPT ![a.room] = [defined |-> TRUE, items |-> Append(@.items, a.id)]]
    [] OTHER -> st

\* state.messages of a ChatProvider after it has dispatched what the
\* listeners make of the events q delivered so far: room_joined and the reply
\* to loadMessages (limit 50) give SET_MESSAGES, message_received ADD_MESSAGE
RECURSIVE ChatState(_)
ChatState(q) ==
  IF q = <<>> THEN [r \in Rooms |-> NoCache]
  ELSE LET e == q[Len(q)]
           a == [type |-> IF e.type = "room_joined" THEN "SET_MESSAGES"
                          ELSE IF e.type = "message_history"
                                  /\ e.seq = HistoryLimit /\ e.error = None
                          THEN "SET_MESSAGES"
                          ELSE IF e.type = "message_received" THEN "ADD_MESSAGE"
                          ELSE e.type,
                 room |-> e.room, recent |-> e.recent, id |-> e.id]
       IN  chatReducer(ChatState(SubSeq(q, 1, Len(q) - 1)), a)

\* Message history while messages arrive: the seeded members connect, alice
\* sends to 'general'; bob's client joins 'general' over the socket and loads
\* its history over REST, with the client's limit and with a limit of one
NextHistory ==
  \/ \E s \in ChatSockets : AuthMiddleware(s, ValidToken(s))
  \/ \E t \in tasks : ConnSetSession(t)
  \/ \E t \in tasks : ConnSetPresence(t)
  \/ \E t \in tasks : ConnGetUserRooms(t)
  \/ \E t \in tasks : ConnAddUserToRoom(t)
  \/ bound["s2"] /\ SendMessage("s1", "general", OkContent, MaxEvents)
  \/ \E t \in tasks : SendValidate(t)
  \/ \E t \in tasks : SendInsert(t)
  \/ \E t \in tasks : SendUpdateRoom(t)
  \/ \E t \in tasks : SendGetPresence(t)
  \/ \E t \in tasks : SendSetPresence(t)
  \/ JoinRoom("s2", "general", MaxEvents)
  \/ \E t \in tasks : JoinExisting(t)
  \/ \E t \in tasks : JoinGetHistory(t)
  \/ \E t \in tasks : JoinGetParticipants(t)
  \/ \E limit \in {1, HistoryLimit} : LoadMessages("s2", "general", limit)
  \/ \E t \in tasks : HistValidate(t)
  \/ \E t \in tasks : HistCached(t)
  \/ \E t \in tasks : HistQuery(t)
  \/ \E t \in tasks : HistStore(t)

SpecHistory == InitSeeded /\ [][NextHistory]_vars

\* C33: the message list the client keeps for a room never holds the same
\* message id twice, whatever room_joined, loadMessages replies and
\* message_received events the client has been delivered.
C33_Claim ==
  \A s \in Sockets : \A r \in Rooms :
    LET l == ChatState(outbox[s])[r].items
    IN  \A i \in 1..Len(l) : \A j \in 1..Len(l) : l[i] = l[j] => i = j

\* C34: a send_message handler ends in one of two ways: the message row
\* exists and the sender gets message_sent while the room gets
\* message_received, or the sender gets send_message_error and there is no
\* row of that message; send_message_error is never the answer for a message
\* that was stored.
C34_Claim ==
  [][\A t \in tasks :
       (t.kind = "send" /\ Ends(t)) =>
         IF \E i \in 1..Len(messages') :
              /\ messages'[i].user = sockUser[t.sock]
              /\ messages'[i].seq = t.seq
         THEN outbox' = SendAnnounce(outbox, t)
         ELSE \E e \in {"send_failed", "missing_required_fields"} :
                outbox' = Emit(outbox, t.sock, SendError(t.room, e))
    ]_vars

\* C35: while another session of the same user is connected and set up, no
\* step of the handleDisconnection of one session changes the user's presence
\* record or any participant set, removes a typing entry the other session
\* started, or sends user_left to anybody.
C35_Claim ==
  [][\A t \in tasks :
       (/\ t.kind = "disconnect" /\ t \notin tasks'
        /\ \E x \in Sockets \ {t.sock} :
             Connected(x) /\ bound[x] /\ sockUser[x] = sockUser[t.sock])
       => /\ presence'[sockUser[t.sock]] = presence[sockUser[t.sock]]
          /\ participants' = participants
          /\ \A r \in Rooms :
               typingUsers[r][sockUser[t.sock]].sock \notin {None, t.sock}
                 => typingUsers'[r][sockUser[t.sock]] = typingUsers[r][sockUser[t.sock]]
          /\ \A y \in Sockets :
               CountType(outbox'[y], "user_left") = CountType(outbox[y], "user_left")
    ]_vars

\* C36: once the handleDisconnection of a user's only session has completed
\* (the socket is closed, its handler was registered and is no longer in
\* flight) and the user has no other connected session, no step writes a
\* presence record for that user.
C36_Claim ==
  [][\A s \in Sockets :
       (/\ sockState[s] = "closed" /\ bound[s]
        /\ ~\E t \in tasks : t.kind = "disconnect" /\ t.sock = s
        /\ ~\E x \in Sockets \ {s} :
             sockUser[x] = sockUser[s] /\ sockState[x] = "connected")
       => presence'[sockUser[s]] \in {presence[sockUser[s]], NoPresence}
    ]_vars

(* ------------- leaving a room over the socket and over REST ------------- *)
\* The seeded members connect.  bob's client runs
\* ChatProvider.leaveRoom('general') for a room he belongs to: it emits
\* leave_room on the socket, then posts to /rooms/general/leave, and the
\* server takes up the two requests in either order.  alice sends to
\* 'general' once bob's membership has ended
NextLeave ==
  \/ \E s \in ChatSockets : AuthMiddleware(s, ValidToken(s))
  \/ \E t \in tasks : ConnSetSession(t)
  \/ \E t \in tasks : ConnSetPresence(t)
  \/ \E t \in tasks : ConnGetUserRooms(t)
  \/ \E t \in tasks : ConnAddUserToRoom(t)
  \/ ~IsMember("bob", "general") /\ SendMessage("s1", "general", OkContent, MaxEvents)
  \/ \E t \in tasks : SendValidate(t)
  \/ \E t \in tasks : SendInsert(t)
  \/ \E t \in tasks : SendUpdateRoom(t)
  \/ \E t \in tasks : SendGetPresence(t)
  \/ \E t \in tasks : SendSetPresence(t)
  \/ /\ IsMember("bob", "general") /\ sent["s2"] = 0
     /\ LeaveRoom("s2", "general", MaxEvents)
  \/ \E t \in tasks : LeaveSelect(t)
  \/ \E t \in tasks : LeaveRemoveUserFromRoom(t)
  \/ \E t \in tasks : LeaveCommit(t)
  \/ sent["s2"] = 1 /\ RestLeaveRoom("bob", "general")

SpecLeave == InitSeeded /\ [][NextLeave]_vars

\* C37: a session whose user's membership of a room has ended, over the
\* socket or over REST, is delivered no message_received for a message that
\* was sent to the room after that.
C37_Claim ==
  \A s \in ChatSockets :
    (sockUser[s] # None /\ ~IsMember(sockUser[s], "general"))
    => CountType(outbox[s], "message_received") = 0

\* C40: when ChatProvider.leaveRoom leaves a room the user belongs to, the
\* leave_room event it emits is never answered with leave_room_error,
\* whichever of its two requests the server takes up first.
C40_Claim ==
  \A s \in ChatSockets : CountType(outbox[s], "leave_room_error") = 0

\* C38: a socket that the transport has closed and that has no handler left
\* running keeps no session key, no presence record and no place in a
\* room's participant set, at whatever point of handleUserConnection the
\* transport closed.
C38_Claim ==
  \A s \in Sockets :
    (/\ sockState[s] = "closed"
     /\ sockUser[s] # None
     /\ ~\E t \in tasks : t.sock = s)
    => /\ sessions[s] = None
       /\ presence[sockUser[s]] = NoPresence
       /\ \A r \in Rooms : sockUser[s] \notin participants[r]

\* what the database query of getMessageHistory answers for room r when the
\* messages table holds its first k rows
C39_Expected(k, r, limit) ==
  LET ids == SelectSeq([i \in 1..k |-> i], LAMBDA i : messages[i].room = r)
      n == Len(ids)
  IN  SubSeq(ids, IF n > limit THEN n - limit + 1 ELSE 1, n)

\* C39: a getMessageHistory call that returns, from the cache or from the
\* database, returns a MessageHistory whose messages are the newest `limit`
\* rows of the room as the table stood at some moment of the call.
C39_Claim ==
  [][\A t \in tasks :
       (/\ t.kind = "history" /\ t.pc \in {"cached", "store"}
        /\ ~\E t2 \in tasks' : t2.kind = "history" /\ t2.sock = t.sock)
       => LET e == outbox'[t.sock][Len(outbox'[t.sock])] IN
          /\ e.recent.defined
          /\ \E k \in t.id..Len(messages) :
               e.recent.items = C39_Expected(k, t.room, t.limit)
    ]_vars

====
